---- MODULE Spec2Model ----
(***************************************************************************)
(* connector-sdk: topic routing table (TopicMap), HTTP invoker (Invoker)   *)
(* and controller (subscriber fan-out, periodic map rebuild).              *)
(***************************************************************************)
EXTENDS Integers, Sequences, FiniteSets, TLC

(***************************************************************************)
(* Bounds of the model.                                                    *)
(***************************************************************************)
MaxCalls == 1
MaxSubs == 1
MaxSyncs == 2

(***************************************************************************)
(* Program constants.                                                      *)
(***************************************************************************)
QueueCap == 1
StatusServiceUnavailable == 503

Nil == "<nil>"
Procs == {"c1", "c2"}
FanOut == "fan"
Registrar == "reg"
Refresher == "refresh"

TopicKeys == {"payment", "Payment"}
Handlers == {"a.fn", "b.fn"}

(***************************************************************************)
(* Sequences helpers.                                                      *)
(***************************************************************************)
Range(s) == {s[i] : i \in DOMAIN s}

Perms(S) == {f \in [1..Cardinality(S) -> S] : Range(f) = S}

RECURSIVE Concat(_)
Concat(ss) == IF ss = <<>> THEN <<>> ELSE Head(ss) \o Concat(Tail(ss))

(***************************************************************************)
(* Routing tables: Go maps from topic key to handler list.                 *)
(***************************************************************************)
EmptyTable == [k \in {} |-> <<>>]

Mappings ==
  { EmptyTable,
    ("payment" :> <<"a.fn">>),
    ("payment" :> <<"b.fn", "a.fn">>),
    ("Payment" :> <<"a.fn", "a.fn">>),
    ("payment" :> <<"a.fn">> @@ "Payment" :> <<"b.fn">>),
    ("payment" :> <<"b.fn", "a.fn">> @@ "Payment" :> <<"a.fn">>) }

(***************************************************************************)
(* Match functions.  "lower" is the README's case-insensitive matcher.     *)
(***************************************************************************)
ToLower(s) == IF s = "Payment" THEN "payment" ELSE s

defaultMatchTopicFold(topicReceived, topicFunction) ==
  ToLower(topicReceived) = ToLower(topicFunction)

defaultMatchTopic(topicReceived, topicFunction) ==
  topicReceived = topicFunction

matchLowercase(topicReceived, topicFunction) ==
  ToLower(topicReceived) = ToLower(topicFunction)

\* NewTopicMap: a nil match function is replaced by the default
NewTopicMapMatchFunc(mf) == IF mf = Nil THEN "default" ELSE mf

\* the predicate Match applies for the matchFunc field value mf
ApplyMatch(mf, topicName, key) ==
  IF mf = Nil \/ mf = "default"
    THEN defaultMatchTopic(topicName, key)
    ELSE matchLowercase(topicName, key)

(***************************************************************************)
(* sync.RWMutex: w is the writer holding the lock, r the readers holding   *)
(* it, pend the writers that called Lock and wait for the readers.         *)
(***************************************************************************)
NewRWMutex == [w |-> Nil, r |-> {}, pend |-> {}]

CanRLock(l) == l.w = Nil /\ l.pend = {}
RLock(l, p) == [l EXCEPT !.r = @ \cup {p}]
RUnlock(l, p) == [l EXCEPT !.r = @ \ {p}]
LockRequest(l, p) == [l EXCEPT !.pend = @ \cup {p}]
\* a Lock that does not wait for the readers
CanLockDespiteReaders(l, p) == p \in l.pend /\ l.w = Nil

CanLock(l, p) == p \in l.pend /\ l.w = Nil /\ l.r = {}

Lock(l, p) == [l EXCEPT !.w = p, !.pend = @ \ {p}]
Unlock(l) == [l EXCEPT !.w = Nil]

(***************************************************************************)
(* State.                                                                  *)
(***************************************************************************)
VARIABLES
  halted,       \* "no", or why the process died: "panic" / "fatal"
  lookup,       \* TopicMap.lookup: reference to the current map object
  mapObj,       \* heap of map objects, indexed by reference
  matchFunc,    \* TopicMap.matchFunc: Nil, "default" or "lower"
  tmLock,       \* TopicMap.lock
  rf,           \* the goroutine that calls Sync (synchronizeLookups)
  pc,           \* position of each client goroutine
  op,           \* the call a client goroutine is executing
  iter,         \* state of the range loop of Match / Topics
  matched,      \* InvokeWithTopic: matchedFunctions
  idx,          \* InvokeWithTopic: position in matchedFunctions
  ret,          \* value returned by the last completed call
  ncalls,       \* calls started by each client goroutine
  seen,         \* history: tables that were current during a Match / Topics call
  lastSync,     \* history: argument of the last completed Sync
  cfg,          \* Invoker fields and InvokerOptions
  queue,        \* Invoker.Responses: the buffered channel
  hdrObj,       \* heap of http.Header objects
  cur,          \* the InvokerResponse a client goroutine is producing
  http,         \* the outbound request of each client goroutine
  pub,          \* history: every InvokerResponse sent on the channel, in order
  subsAt,       \* history: the subscribers registered when pub[id] was sent
  Subscribers,  \* controller.Subscribers
  subLock,      \* controller.lock
  fan,          \* the fan-out goroutine started by NewController
  logs,         \* history: what each subscriber's Response received
  reg           \* the goroutine that calls Subscribe

tmVars == <<lookup, mapObj, matchFunc, tmLock>>
rfVars == <<rf, lastSync>>
clVars == <<pc, op, iter, matched, idx, ret, ncalls, seen>>
ivVars == <<cfg, queue, hdrObj, cur, http, pub, subsAt>>
ctVars == <<Subscribers, subLock, fan, logs, reg>>
vars == <<halted, tmVars, rfVars, clVars, ivVars, ctVars>>

\* n0 is a history field: the Syncs completed when the call began (kept for
\* Match, Topics, Invoke and the dispatch that returns without a lookup)
NoArgs == [name |-> "none", topic |-> "", msg |-> Nil, hdr |-> Nil,
           opts |-> <<>>, fn |-> "", n0 |-> 0, ctx |-> "live"]
NoIter == [ref |-> 0, order |-> <<>>, vals |-> <<>>]
NoRet == [op |-> "none", topic |-> "", values |-> <<>>]

ReadPcs == {"match_rlock", "match_runlock", "topics_rlock", "topics_runlock"}

(***************************************************************************)
(* TopicMap.Match                                                          *)
(***************************************************************************)
\* if matchFunc(topicName, key) { values = append(values, functions...) }
MatchVisitDedup(mf, topicName, key, functions, values) ==
  IF ApplyMatch(mf, topicName, key)
    THEN values \o SelectSeq(functions, LAMBDA f : f \notin Range(values))
    ELSE values

MatchVisit(mf, topicName, key, functions, values) ==
  IF ApplyMatch(mf, topicName, key) THEN values \o functions ELSE values

MatchCall(p, topicName) ==
  /\ halted = "no"
  /\ pc[p] = "idle" /\ ncalls[p] < MaxCalls
  /\ ncalls' = [ncalls EXCEPT ![p] = @ + 1]
  /\ op' = [op EXCEPT ![p] = [NoArgs EXCEPT !.name = "Match", !.topic = topicName,
                                              !.n0 = rf.nsync]]
  /\ ret' = [ret EXCEPT ![p] = NoRet]
  /\ seen' = [seen EXCEPT ![p] = {mapObj[lookup]}]
  /\ pc' = [pc EXCEPT ![p] = "match_rlock"]
  /\ UNCHANGED <<ivVars, ctVars, halted, tmVars, rfVars, iter, matched, idx>>

\* the values the range loop builds when it visits the keys in this order
RECURSIVE MatchRange(_, _, _, _, _)
MatchRange(mf, topicName, table, order, values) ==
  IF order = <<>> THEN values
  ELSE MatchRange(mf, topicName, table, Tail(order),
                  MatchVisit(mf, topicName, Head(order), table[Head(order)], values))

\* t.lock.RLock() and the range loop over *t.lookup, which is evaluated once;
\* Go visits the keys of a map in any order
MatchRLock(p) ==
  /\ halted = "no"
  /\ pc[p] = "match_rlock"
  /\ CanRLock(tmLock)
  /\ tmLock' = RLock(tmLock, p)
  /\ \E order \in Perms(DOMAIN mapObj[lookup]) :
       iter' = [iter EXCEPT ![p] =
                  [ref |-> lookup, order |-> order,
                   vals |-> MatchRange(matchFunc, op[p].topic, mapObj[lookup],
                                       order, <<>>)]]
  /\ pc' = [pc EXCEPT ![p] = "match_runlock"]
  /\ UNCHANGED <<ivVars, ctVars, halted, lookup, mapObj, matchFunc, rfVars, op,
                 matched, idx, ret, ncalls, seen>>

\* deferred t.lock.RUnlock(); return values
\* an InvokeWithTopic that publishes a result when nothing matched
IwtAfterMatchNotify(matchedFunctions) ==
  IF matchedFunctions = <<>> THEN "iwt_nomsg" ELSE "inv_start"

\* for _, matchedFunction := range matchedFunctions: no turn of the loop, and
\* the return, when the slice is empty
IwtAfterMatch(matchedFunctions) ==
  IF matchedFunctions = <<>> THEN "idle" ELSE "inv_start"

MatchRUnlock(p) ==
  /\ halted = "no"
  /\ pc[p] = "match_runlock"
  /\ tmLock' = RUnlock(tmLock, p)
  /\ IF op[p].name = "Match"
       THEN /\ ret' = [ret EXCEPT ![p] = [op |-> "Match", topic |-> op[p].topic,
                                          values |-> iter[p].vals]]
            /\ pc' = [pc EXCEPT ![p] = "idle"]
            /\ UNCHANGED <<matched, idx>>
       ELSE /\ matched' = [matched EXCEPT ![p] = iter[p].vals]
            /\ idx' = [idx EXCEPT ![p] = 1]
            /\ pc' = [pc EXCEPT ![p] = IwtAfterMatch(iter[p].vals)]
            /\ UNCHANGED ret
  /\ iter' = [iter EXCEPT ![p] = NoIter]
  /\ UNCHANGED <<ivVars, ctVars, halted, lookup, mapObj, matchFunc, rfVars, op, ncalls, seen>>

(***************************************************************************)
(* TopicMap.Topics                                                         *)
(***************************************************************************)
TopicsCall(p) ==
  /\ halted = "no"
  /\ pc[p] = "idle" /\ ncalls[p] < MaxCalls
  /\ ncalls' = [ncalls EXCEPT ![p] = @ + 1]
  /\ op' = [op EXCEPT ![p] = [NoArgs EXCEPT !.name = "Topics", !.n0 = rf.nsync]]
  /\ ret' = [ret EXCEPT ![p] = NoRet]
  /\ seen' = [seen EXCEPT ![p] = {mapObj[lookup]}]
  /\ pc' = [pc EXCEPT ![p] = "topics_rlock"]
  /\ UNCHANGED <<ivVars, ctVars, halted, tmVars, rfVars, iter, matched, idx>>

\* t.lock.RLock() and the range loop appending every key
TopicsRLock(p) ==
  /\ halted = "no"
  /\ pc[p] = "topics_rlock"
  /\ CanRLock(tmLock)
  /\ tmLock' = RLock(tmLock, p)
  /\ \E order \in Perms(DOMAIN mapObj[lookup]) :
       iter' = [iter EXCEPT ![p] = [ref |-> lookup, order |-> order, vals |-> order]]
  /\ pc' = [pc EXCEPT ![p] = "topics_runlock"]
  /\ UNCHANGED <<ivVars, ctVars, halted, lookup, mapObj, matchFunc, rfVars, op,
                 matched, idx, ret, ncalls, seen>>

\* deferred t.lock.RUnlock(); return topics
TopicsRUnlock(p) ==
  /\ halted = "no"
  /\ pc[p] = "topics_runlock"
  /\ tmLock' = RUnlock(tmLock, p)
  /\ ret' = [ret EXCEPT ![p] = [op |-> "Topics", topic |-> "",
                                values |-> iter[p].vals]]
  /\ iter' = [iter EXCEPT ![p] = NoIter]
  /\ pc' = [pc EXCEPT ![p] = "idle"]
  /\ UNCHANGED <<ivVars, ctVars, halted, lookup, mapObj, matchFunc, rfVars, op, matched, idx,
                 ncalls, seen>>

(***************************************************************************)
(* TopicMap.Sync                                                           *)
(***************************************************************************)
MergeTables(old, new) ==
  [k \in DOMAIN old \cup DOMAIN new |-> IF k \in DOMAIN new THEN new[k] ELSE old[k]]

\* a Sync that copies the entries of updated into the current map
SyncMerge(lk, heap, updated) ==
  [lookup |-> lk,
   heap |-> [heap EXCEPT ![lk] = MergeTables(heap[lk], heap[updated])]]

\* a Sync whose assignment is lost (value receiver)
SyncLost(lk, heap, updated) == [lookup |-> lk, heap |-> heap]

\* t.lookup = updated
SyncAssign(lk, heap, updated) == [lookup |-> updated, heap |-> heap]

\* t.lock.Lock() returns once the readers have left; t.lookup = updated;
\* deferred t.lock.Unlock()
SyncAssignUnlock ==
  /\ halted = "no"
  /\ rf.pc = "sync_wait"
  /\ CanLock(tmLock, Refresher)
  /\ LET s == SyncAssign(lookup, mapObj, rf.updated)
     IN  /\ lookup' = s.lookup
         /\ mapObj' = s.heap
  /\ tmLock' = Unlock(Lock(tmLock, Refresher))
  /\ lastSync' = mapObj[rf.updated]
  /\ seen' = [p \in Procs |->
                IF pc[p] \in ReadPcs /\ op[p].name \in {"Match", "Topics"}
                  THEN seen[p] \cup {mapObj[rf.updated]}
                                     ELSE seen[p]]
  /\ rf' = [rf EXCEPT !.pc = rf.back, !.nsync = @ + 1]
  /\ UNCHANGED <<ivVars, ctVars, halted, matchFunc, pc, op, iter, matched, idx, ret, ncalls>>

\* a direct caller of Sync(&M); t.lock.Lock() announces the writer
SyncCall(M) ==
  /\ halted = "no"
  /\ rf.pc = "direct" /\ rf.nsync < MaxSyncs
  /\ mapObj' = Append(mapObj, M)
  /\ tmLock' = LockRequest(tmLock, Refresher)
  /\ rf' = [rf EXCEPT !.pc = "sync_wait", !.updated = Len(mapObj) + 1,
                      !.back = "direct"]
  /\ UNCHANGED <<ivVars, ctVars, halted, lookup, matchFunc, lastSync, clVars>>

(***************************************************************************)
(* http.Header values and the per-call options.                            *)
(***************************************************************************)
HdrNames == {"User-Agent", "X-Topic", "X-Callback-Url", "Content-Type", "X-Connector"}
EmptyHeader == [k \in HdrNames |-> <<>>]
HeaderSet(h, k, v) == [h EXCEPT ![k] = <<v>>]

WithInvokeTopic(topic) == [k |-> "topic", v |-> topic]
WithInvokeAsyncCallbackURL(url) == [k |-> "asyncCallbackURL", v |-> url]
WithInvokeContentType(ct) == [k |-> "contentType", v |-> ct]

NoInvokeOptions == [topic |-> "", asyncCallbackURL |-> "", contentType |-> ""]

\* no controller: the invoker was built by NewInvoker alone
NoConfig ==
  [GatewayURL |-> <<>>, AsyncFunctionInvocation |-> FALSE,
   ContentType |-> "", PrintResponse |-> FALSE, PrintRequestBody |-> FALSE,
   UserAgent |-> "", AsyncFunctionCallbackURL |-> "", SendTopic |-> FALSE]

\* o := &InvokeOptions{}; for _, optFn := range opts { optFn(o) }
RECURSIVE ApplyOpts(_, _)
ApplyOpts(o, opts) ==
  IF opts = <<>> THEN o
  ELSE ApplyOpts([o EXCEPT ![Head(opts).k] = Head(opts).v], Tail(opts))

(***************************************************************************)
(* InvokerResponse.  id, call and hidx are history fields: the position of *)
(* the response in the channel's traffic, the call that produced it and    *)
(* the index of the handler in that call's matchedFunctions.               *)
(***************************************************************************)
ErrNoMessage == "no message to send"
ErrUnreachable == "unable to invoke: unable to reach endpoint"
ErrReadBody == "unable to invoke: unable to read body from response"

NoResp == [id |-> 0, Status |-> 0, Error |-> Nil, Function |-> "", Topic |-> "",
           Body |-> Nil, Header |-> Nil, call |-> <<Nil, 0>>, hidx |-> 0]
\* the requests of the call in progress: how many were sent, and the last one
\* with what became of it
NoOutcome == [kind |-> "none", status |-> 0]
NoHttp == [n |-> 0, fn |-> "", url |-> <<>>, given |-> EmptyHeader, header |-> EmptyHeader,
           body |-> Nil, inflight |-> FALSE, outcome |-> NoOutcome,
           done |-> FALSE]

HttpOutcomes ==
  { [kind |-> "response", status |-> 200], [kind |-> "response", status |-> 404],
    [kind |-> "unreachable", status |-> 0], [kind |-> "readerr", status |-> 200] }

\* an invoke that reports the response's status when the body cannot be read
invokeResultKeepStatus(outcome) ==
  CASE outcome.kind = "unreachable" ->
         [body |-> Nil, status |-> StatusServiceUnavailable, header |-> Nil,
          err |-> ErrUnreachable]
    [] outcome.kind = "readerr" ->
         [body |-> Nil, status |-> outcome.status, header |-> "header",
          err |-> ErrReadBody]
    [] OTHER ->
         [body |-> "body", status |-> outcome.status, header |-> "header",
          err |-> Nil]

\* Invoker.invoke after c.Do: (body, statusCode, header, err)
invokeResult(outcome) ==
  CASE outcome.kind = "unreachable" ->
         [body |-> Nil, status |-> StatusServiceUnavailable, header |-> Nil,
          err |-> ErrUnreachable]
    [] outcome.kind = "readerr" ->
         [body |-> Nil, status |-> StatusServiceUnavailable, header |-> Nil,
          err |-> ErrReadBody]
    [] OTHER ->
         [body |-> "body", status |-> outcome.status, header |-> "header",
          err |-> Nil]

\* the InvokerResponse Invoke builds from the result of invoke
InvokeResponse(r, functionName, topic, callId, h) ==
  IF r.err # Nil
    THEN [NoResp EXCEPT !.Status = r.status, !.Error = r.err,
                        !.Function = functionName, !.call = callId, !.hidx = h]
    ELSE [NoResp EXCEPT !.Body = r.body, !.Status = r.status, !.Header = r.header,
                        !.Function = functionName, !.Topic = topic,
                        !.call = callId, !.hidx = h]

\* Invoke's headers with the invoker-level values tested before the per-call ones
InvokeHeadersDefaultFirst(c, o, h) ==
  LET h1 == IF c.userAgent # "" THEN HeaderSet(h, "User-Agent", c.userAgent) ELSE h
      h2 == IF c.sendTopic THEN HeaderSet(h1, "X-Topic", o.topic) ELSE h1
      h3 == IF c.asyncCallbackURL # ""
              THEN HeaderSet(h2, "X-Callback-Url", c.asyncCallbackURL)
              ELSE IF o.asyncCallbackURL # ""
                     THEN HeaderSet(h2, "X-Callback-Url", o.asyncCallbackURL)
                     ELSE h2
  IN  IF c.ContentType # ""
        THEN HeaderSet(h3, "Content-Type", c.ContentType)
        ELSE IF o.contentType # ""
               THEN HeaderSet(h3, "Content-Type", o.contentType)
               ELSE h3

\* the headers Invoke sets on the caller's header object
InvokeHeaders(c, o, h) ==
  LET h1 == IF c.userAgent # "" THEN HeaderSet(h, "User-Agent", c.userAgent) ELSE h
      h2 == IF c.sendTopic THEN HeaderSet(h1, "X-Topic", o.topic) ELSE h1
      h3 == IF o.asyncCallbackURL # ""
              THEN HeaderSet(h2, "X-Callback-Url", o.asyncCallbackURL)
              ELSE IF c.asyncCallbackURL # ""
                     THEN HeaderSet(h2, "X-Callback-Url", c.asyncCallbackURL)
                     ELSE h2
  IN  IF o.contentType # ""
        THEN HeaderSet(h3, "Content-Type", o.contentType)
        ELSE IF c.ContentType # ""
               THEN HeaderSet(h3, "Content-Type", c.ContentType)
               ELSE h3

\* Invoker.invoke before c.Do: the header of the outbound request.  The new
\* request has no X-Connector, so it is set; every caller value is then added.
RequestHeader(h) ==
  [k \in HdrNames |-> (IF k = "X-Connector" THEN <<"connector-sdk">> ELSE <<>>) \o h[k]]

(***************************************************************************)
(* Invoker.Invoke                                                          *)
(***************************************************************************)
CallId(p) == <<p, ncalls[p]>>

\* the header object Invoke writes: the caller's, or a new one when nil
HeaderRef(p) == IF op[p].hdr = Nil THEN p ELSE op[p].hdr

\* a loop that asks the table again for each handler it invokes
FunctionNameRematched(p) ==
  IF op[p].name = "Invoke" THEN op[p].fn
  ELSE LET T == mapObj[lookup]
           now == MatchRange(matchFunc, op[p].topic, T,
                             CHOOSE order \in Perms(DOMAIN T) : TRUE, <<>>)
       IN  IF idx[p] <= Len(now) THEN now[idx[p]] ELSE matched[p][idx[p]]

\* functionName of the invocation in progress
FunctionNameReversed(p) ==
  IF op[p].name = "Invoke" THEN op[p].fn
  ELSE matched[p][Len(matched[p]) - idx[p] + 1]

FunctionName(p) == IF op[p].name = "Invoke" THEN op[p].fn ELSE matched[p][idx[p]]

\* a target URL worked out from the controller's Config at each call
gwURLFromConfig(c, functionName) ==
  IF c.Config = NoConfig THEN Append(c.GatewayURL, functionName)
  ELSE Append(IF c.Config.AsyncFunctionInvocation
                THEN Append(c.Config.GatewayURL, "async-function")
                ELSE Append(c.Config.GatewayURL, "function"), functionName)

\* gwURL := fmt.Sprintf("%s/%s", i.GatewayURL, functionName)
gwURL(c, functionName) == Append(c.GatewayURL, functionName)

\* a direct call of Invoker.Invoke(ctx, functionName, message, headers, opts...)
InvokeCall(p, functionName, message, headers, opts) ==
  /\ halted = "no"
  /\ pc[p] = "idle" /\ ncalls[p] < MaxCalls
  /\ ncalls' = [ncalls EXCEPT ![p] = @ + 1]
  /\ op' = [op EXCEPT ![p] = [name |-> "Invoke", topic |-> "", msg |-> message,
                              hdr |-> headers, opts |-> opts, fn |-> functionName,
                              n0 |-> rf.nsync, ctx |-> "live"]]
  /\ ret' = [ret EXCEPT ![p] = NoRet]
  /\ cur' = [cur EXCEPT ![p] = NoResp]
  /\ http' = [http EXCEPT ![p] = NoHttp]
  /\ matched' = [matched EXCEPT ![p] = <<>>]
  /\ idx' = [idx EXCEPT ![p] = 0]
  /\ pc' = [pc EXCEPT ![p] = "inv_start"]
  /\ UNCHANGED <<halted, tmVars, rfVars, ctVars, iter, seen, cfg, queue, hdrObj,
                 pub, subsAt>>

\* Invoke up to c.Do(req): options, request printing, headers, the request
InvokeStart(p) ==
  /\ halted = "no"
  /\ pc[p] = "inv_start"
  /\ IF cfg.PrintRequest /\ op[p].msg = Nil
       THEN \* string(*message) dereferences a nil pointer
            /\ halted' = "panic"
            /\ UNCHANGED <<hdrObj, http, pc>>
       ELSE LET o == ApplyOpts(NoInvokeOptions, op[p].opts)
                base == IF op[p].hdr = Nil THEN EmptyHeader ELSE hdrObj[op[p].hdr]
                h == InvokeHeaders(cfg, o, base)
            IN  /\ hdrObj' = [hdrObj EXCEPT ![HeaderRef(p)] = h]
                /\ http' = [http EXCEPT ![p] =
                              [n |-> @.n + 1, fn |-> FunctionName(p),
                               url |-> gwURL(cfg, FunctionName(p)),
                               given |-> base, header |-> RequestHeader(h),
                               body |-> IF op[p].msg = Nil THEN "" ELSE op[p].msg,
                               inflight |-> TRUE, outcome |-> NoOutcome,
                               done |-> op[p].ctx = "cancelled"]]
                /\ pc' = [pc EXCEPT ![p] = "http"]
                /\ UNCHANGED halted
  /\ UNCHANGED <<tmVars, rfVars, ctVars, op, iter, matched, idx, ret, ncalls,
                 seen, cfg, queue, cur, pub, subsAt>>

\* c.Do(req) and io.ReadAll return; Invoke builds the InvokerResponse
HttpReturn(p, outcome) ==
  /\ halted = "no"
  /\ pc[p] = "http"
  /\ http[p].done => outcome.kind = "unreachable"
  /\ http' = [http EXCEPT ![p].inflight = FALSE, ![p].outcome = outcome]
  /\ cur' = [cur EXCEPT ![p] =
               InvokeResponse(invokeResult(outcome), FunctionName(p),
                              ApplyOpts(NoInvokeOptions, op[p].opts).topic,
                              CallId(p), idx[p])]
  /\ pc' = [pc EXCEPT ![p] = "inv_send"]
  /\ UNCHANGED <<halted, tmVars, rfVars, ctVars, op, iter, matched, idx, ret,
                 ncalls, seen, cfg, queue, hdrObj, pub, subsAt>>

\* a loop that invokes a handler again when its invocation failed
NextHandlerRetry(i, r) == IF r.Error # Nil THEN i ELSE i + 1

\* for _, matchedFunction := range matchedFunctions: on to the next element
NextHandler(i, r) == i + 1

\* an Invoke that returns a zero InvokerResponse
InvokeReturnZero(r) == NoResp

\* a send abandoned when the call's context is done
PublishesUnlessDone(ctx) == ctx # "cancelled"

\* i.Responses <- r is a plain send, in no select with ctx.Done()
Publishes(ctx) == TRUE

\* a channel that accepts every send, whatever it holds
CanSendAlways(q) == TRUE

\* a send on the buffered channel proceeds when the buffer has room
CanSend(q) == Len(q) < QueueCap

\* return invokerResponse: the value that was sent
InvokeReturn(r) == r

\* i.Responses <- invokerResponse; return invokerResponse
InvokeSend(p) ==
  /\ halted = "no"
  /\ pc[p] = "inv_send"
  /\ Publishes(op[p].ctx) => CanSend(queue)
  /\ LET r == [cur[p] EXCEPT !.id = Len(pub) + 1]
     IN  /\ IF Publishes(op[p].ctx)
              THEN /\ queue' = Append(queue, r)
                   /\ pub' = Append(pub, r)
                   /\ subsAt' = Append(subsAt, Range(Subscribers))
              ELSE UNCHANGED <<queue, pub, subsAt>>
         /\ cur' = [cur EXCEPT ![p] = r]
         /\ IF op[p].name = "Invoke"
              THEN /\ ret' = [ret EXCEPT ![p] = [op |-> "Invoke", topic |-> "",
                                                 values |-> <<InvokeReturn(r)>>]]
                   /\ pc' = [pc EXCEPT ![p] = "idle"]
                   /\ UNCHANGED idx
              ELSE /\ idx' = [idx EXCEPT ![p] = NextHandler(@, r)]
                   /\ pc' = [pc EXCEPT ![p] =
                                IF NextHandler(idx[p], r) > Len(matched[p])
                                  THEN "idle" ELSE "inv_start"]
                   /\ UNCHANGED ret
  /\ UNCHANGED <<halted, tmVars, rfVars, ctVars, op, iter, matched, ncalls,
                 seen, cfg, hdrObj, http>>

(***************************************************************************)
(* controller.Invoke / InvokeWithContext -> Invoker.InvokeWithTopic        *)
(***************************************************************************)
\* an InvokeWithTopic that puts its topic option before the caller's options
IwtOptionsTopicFirst(opts, topic) == <<WithInvokeTopic(topic)>> \o opts

\* opts = append(opts, WithInvokeTopic(topic))
IwtOptions(opts, topic) == Append(opts, WithInvokeTopic(topic))

Dispatch(p, topic, message, headers, opts) ==
  /\ halted = "no"
  /\ pc[p] = "idle" /\ ncalls[p] < MaxCalls
  /\ ncalls' = [ncalls EXCEPT ![p] = @ + 1]
  /\ ret' = [ret EXCEPT ![p] = NoRet]
  /\ http' = [http EXCEPT ![p] = NoHttp]
  /\ matched' = [matched EXCEPT ![p] = <<>>]
  /\ idx' = [idx EXCEPT ![p] = 0]
  /\ IF message = Nil
       THEN \* len(*message) dereferences a nil pointer
            /\ halted' = "panic"
            /\ op' = [op EXCEPT ![p] =
                        [name |-> "InvokeWithTopic", topic |-> topic,
                         msg |-> message, hdr |-> headers, opts |-> opts,
                         fn |-> "", n0 |-> 0, ctx |-> "live"]]
            /\ UNCHANGED <<cur, pc, seen>>
       ELSE IF message = ""
         THEN /\ op' = [op EXCEPT ![p] =
                          [name |-> "InvokeWithTopic", topic |-> topic,
                           msg |-> message, hdr |-> headers, opts |-> opts,
                           fn |-> "", n0 |-> rf.nsync, ctx |-> "live"]]
              /\ cur' = [cur EXCEPT ![p] =
                           [NoResp EXCEPT !.Error = ErrNoMessage,
                                          !.call = <<p, ncalls[p] + 1>>]]
              /\ pc' = [pc EXCEPT ![p] = "iwt_nomsg"]
              /\ UNCHANGED <<halted, seen>>
         ELSE \* opts = append(opts, WithInvokeTopic(topic)); topicMap.Match(topic)
              /\ op' = [op EXCEPT ![p] =
                          [name |-> "InvokeWithTopic", topic |-> topic,
                           msg |-> message, hdr |-> headers,
                           opts |-> IwtOptions(opts, topic),
                           fn |-> "", n0 |-> 0, ctx |-> "live"]]
              /\ cur' = [cur EXCEPT ![p] = NoResp]
              /\ pc' = [pc EXCEPT ![p] = "match_rlock"]
              /\ UNCHANGED <<halted, seen>>
  /\ UNCHANGED <<tmVars, rfVars, ctVars, iter, cfg, queue, hdrObj, pub, subsAt>>

\* where InvokeWithTopic goes on without the return that follows the send
IwtAfterNoMessageFallThrough(p) == "match_rlock"

\* the return that follows the send of the "no message" response
IwtAfterNoMessage(p) == "idle"

\* i.Responses <- InvokerResponse{Error: "no message to send"}; return
IwtSendNoMessage(p) ==
  /\ halted = "no"
  /\ pc[p] = "iwt_nomsg"
  /\ Publishes(op[p].ctx) => CanSend(queue)
  /\ LET r == [cur[p] EXCEPT !.id = Len(pub) + 1]
     IN  /\ IF Publishes(op[p].ctx)
              THEN /\ queue' = Append(queue, r)
                   /\ pub' = Append(pub, r)
                   /\ subsAt' = Append(subsAt, Range(Subscribers))
              ELSE UNCHANGED <<queue, pub, subsAt>>
         /\ cur' = [cur EXCEPT ![p] = r]
  /\ pc' = [pc EXCEPT ![p] = IwtAfterNoMessage(p)]
  /\ UNCHANGED <<halted, tmVars, rfVars, ctVars, op, iter, matched, idx, ret,
                 ncalls, seen, cfg, hdrObj, http>>

\* the caller of InvokeWithContext cancels the context it passed, at any
\* time from the call on
Cancel(p) ==
  /\ halted = "no"
  /\ op[p].name = "InvokeWithTopic" /\ op[p].ctx = "live"
  /\ op' = [op EXCEPT ![p].ctx = "cancelled"]
  /\ UNCHANGED <<halted, tmVars, rfVars, ctVars, ivVars, pc, iter, matched, idx,
                 ret, ncalls, seen>>

\* the caller of NewController writes to the ControllerConfig it passed;
\* controller.Config is a pointer to that object
SetAsyncFunctionInvocation(b) ==
  /\ halted = "no"
  /\ cfg.Config # NoConfig
  /\ cfg.Config.AsyncFunctionInvocation # b
  /\ cfg' = [cfg EXCEPT !.Config.AsyncFunctionInvocation = b]
  /\ UNCHANGED <<halted, tmVars, rfVars, clVars, ctVars, queue, hdrObj, cur,
                 http, pub, subsAt>>

(***************************************************************************)
(* controller.Subscribe                                                    *)
(***************************************************************************)
SubIds == 0..MaxSubs
ResponsePrinter == 0

\* c.lock.Lock(): announce the writer
SubscribeCall ==
  /\ halted = "no"
  /\ reg.pc = "idle" /\ reg.n < MaxSubs
  /\ subLock' = LockRequest(subLock, Registrar)
  /\ reg' = [pc |-> "wait", n |-> reg.n + 1]
  /\ UNCHANGED <<halted, tmVars, rfVars, clVars, ivVars, Subscribers, fan, logs>>

\* c.lock.Lock() returns once the fan-out has released its read lock;
\* c.Subscribers = append(c.Subscribers, subscriber); deferred c.lock.Unlock()
SubscribeAppend ==
  /\ halted = "no"
  /\ reg.pc = "wait"
  /\ CanLock(subLock, Registrar)
  /\ Subscribers' = Append(Subscribers, reg.n)
  /\ subLock' = Unlock(Lock(subLock, Registrar))
  /\ reg' = [reg EXCEPT !.pc = "idle"]
  /\ UNCHANGED <<halted, tmVars, rfVars, clVars, ivVars, fan, logs>>

(***************************************************************************)
(* The fan-out goroutine of NewController.                                 *)
(***************************************************************************)
\* reg is a history field: the subscribers registered when res was received
NewFan == [pc |-> "recv", res |-> NoResp, subs |-> <<>>, i |-> 0, reg |-> {}]

\* res := <-*ch
FanRecv ==
  /\ halted = "no"
  /\ fan.pc = "recv"
  /\ queue # <<>>
  /\ fan' = [fan EXCEPT !.pc = "rlock", !.res = Head(queue),
                        !.reg = Range(Subscribers)]
  /\ queue' = Tail(queue)
  /\ UNCHANGED <<halted, tmVars, rfVars, clVars, cfg, hdrObj, cur, http, pub,
                 subsAt, Subscribers, subLock, logs, reg>>

\* controller.lock.RLock(); the range expression is evaluated once
FanRLock ==
  /\ halted = "no"
  /\ fan.pc = "rlock"
  /\ CanRLock(subLock)
  /\ subLock' = RLock(subLock, FanOut)
  /\ fan' = [fan EXCEPT !.pc = "deliver", !.subs = Subscribers, !.i = 1]
  /\ UNCHANGED <<halted, tmVars, rfVars, clVars, ivVars, Subscribers, logs, reg>>

\* the subscriber the loop delivers to at position i
FanTargetLast(subs, i) == subs[Len(subs)]

FanTargetReverse(subs, i) == subs[Len(subs) - i + 1]

FanTarget(subs, i) == subs[i]

\* sub.Response(res)
FanDeliver ==
  /\ halted = "no"
  /\ fan.pc = "deliver"
  /\ fan.i <= Len(fan.subs)
  /\ logs' = [logs EXCEPT ![FanTarget(fan.subs, fan.i)] = Append(@, fan.res.id)]
  /\ fan' = [fan EXCEPT !.i = @ + 1]
  /\ UNCHANGED <<halted, tmVars, rfVars, clVars, ivVars, Subscribers, subLock, reg>>

\* controller.lock.RUnlock()
FanRUnlock ==
  /\ halted = "no"
  /\ fan.pc = "deliver"
  /\ fan.i > Len(fan.subs)
  /\ subLock' = RUnlock(subLock, FanOut)
  /\ fan' = [fan EXCEPT !.pc = "recv", !.subs = <<>>, !.i = 0, !.reg = {}]
  /\ UNCHANGED <<halted, tmVars, rfVars, clVars, ivVars, Subscribers, logs, reg>>

(***************************************************************************)
(* controller.BeginMapBuilder / synchronizeLookups                         *)
(***************************************************************************)
NoBuilder ==
  [Namespace |-> "", TopicDelimiter |-> <<>>, gateway |-> <<>>, pc |-> "none",
   namespaces |-> <<>>, i |-> 0, serviceMap |-> <<>>]

\* the goroutine's state; builds, ticks, failed and built are history fields:
\* the Build calls that returned, the ticks received, whether a Build failed,
\* and the mappings the successful Builds returned
\* tasks counts the go c.synchronizeLookups statements executed; more is the
\* goroutine a further BeginMapBuilder call starts beside the first
NoRefresher == [pc |-> "off", updated |-> 0, nsync |-> 0]

\* bld is the FunctionLookupBuilder the goroutine calls and the position of
\* its Build; NoBuilder stands for a lookup collaborator whose Build is not
\* followed step by step
NewRefresher(at, back) ==
  [pc |-> at, updated |-> 0, back |-> back, nsync |-> 0,
   builds |-> 0, ticks |-> 0, failed |-> FALSE, built |-> <<>>,
   bld |-> NoBuilder, tasks |-> 0, more |-> NoRefresher]

\* a synchronizeLookups that waits for the first tick
RefreshStartAtTick == "tick"

\* fn() is called once before the loop over ticker.C
RefreshStart == "build"

BeginMapBuilder ==
  /\ halted = "no"
  /\ rf.pc = "off"
  /\ rf' = [rf EXCEPT !.pc = RefreshStart, !.back = "tick", !.tasks = @ + 1]
  /\ UNCHANGED <<halted, tmVars, lastSync, clVars, ivVars, ctVars>>

\* lookups, err := lookupBuilder.Build() with err == nil; topicMap.Sync(&lookups)
\* is called and t.lock.Lock() announces the writer
BuildOk(M) ==
  /\ halted = "no"
  /\ rf.pc = "build"
  /\ mapObj' = Append(mapObj, M)
  /\ tmLock' = LockRequest(tmLock, Refresher)
  /\ rf' = [rf EXCEPT !.pc = "sync_wait", !.updated = Len(mapObj) + 1,
                      !.builds = @ + 1, !.built = Append(@, M)]
  /\ UNCHANGED <<halted, lookup, matchFunc, lastSync, clVars, ivVars, ctVars>>

\* a rebuild that logs the error and goes on
BuildErrorLogged == "no"

\* log.Fatalln(err) exits the process
BuildErrorExit == "fatal"

\* err != nil: log.Fatalln(err)
BuildError ==
  /\ halted = "no"
  /\ rf.pc = "build"
  /\ halted' = BuildErrorExit
  /\ rf' = [rf EXCEPT !.builds = @ + 1, !.failed = TRUE]
  /\ UNCHANGED <<tmVars, lastSync, clVars, ivVars, ctVars>>

\* <-ticker.C
Tick ==
  /\ halted = "no"
  /\ rf.pc = "tick" /\ rf.nsync < MaxSyncs
  /\ rf' = [rf EXCEPT !.pc = "build", !.ticks = @ + 1]
  /\ UNCHANGED <<halted, tmVars, lastSync, clVars, ivVars, ctVars>>

(***************************************************************************)
(* Inputs.                                                                 *)
(***************************************************************************)
HdrRefs == {"h1", "h2"}
Messages == {Nil, "", "hi"}
ReceivedTopics == {"payment", "Payment"}

InvokeOpts ==
  { <<>>,
    <<WithInvokeTopic("payment")>>,
    <<WithInvokeContentType("text/plain")>>,
    <<WithInvokeTopic("payment"), WithInvokeAsyncCallbackURL("http://call-cb"),
      WithInvokeContentType("text/plain")>> }

\* the options a caller of controller.Invoke passes
DispatchOpts == {<<>>, <<WithInvokeTopic("orders")>>}

HeaderInputs == {EmptyHeader, [EmptyHeader EXCEPT !["X-Connector"] = <<"mine">>]}

\* NewInvoker as called by NewController.  URLs are sequences of path
\* segments.  Config is controller.Config, the caller's ControllerConfig
\* object, kept beside the invoker's fields when a controller built it.
NewInvoker(gatewayURL, contentType, printResponse, printRequest, userAgent, callbackURL, sendTopic) ==
  [GatewayURL |-> gatewayURL, ContentType |-> contentType,
   PrintResponse |-> printResponse, PrintRequest |-> printRequest,
   userAgent |-> userAgent, asyncCallbackURL |-> callbackURL,
   sendTopic |-> sendTopic, Config |-> NoConfig]

InvokerConfigs ==
  { NewInvoker(<<"gw", "function">>, ct, FALSE, pr, "", cb, st) :
      ct \in {"", "application/json"}, pr \in BOOLEAN,
      cb \in {"", "http://default-cb"}, st \in BOOLEAN }

\* the ControllerConfig the model's callers pass to NewController
ControllerConfig(async) ==
  [GatewayURL |-> <<"gw">>, AsyncFunctionInvocation |-> async,
   ContentType |-> "", PrintResponse |-> TRUE, PrintRequestBody |-> FALSE,
   UserAgent |-> "", AsyncFunctionCallbackURL |-> "", SendTopic |-> TRUE]

gatewayRoute(config) ==
  IF config.AsyncFunctionInvocation
    THEN Append(config.GatewayURL, "async-function")
    ELSE Append(config.GatewayURL, "function")

\* NewController: gatewayFunctionPath := gatewayRoute(config); NewInvoker(...)
NewController(config) ==
  [NewInvoker(gatewayRoute(config), config.ContentType, config.PrintResponse,
              config.PrintRequestBody, config.UserAgent,
              config.AsyncFunctionCallbackURL, config.SendTopic)
     EXCEPT !.Config = config]

ControllerConfigs == {NewController(ControllerConfig(FALSE))}

PipelineConfigs == {NewController(ControllerConfig(async)) : async \in BOOLEAN}

(***************************************************************************)
(* Initial states.                                                         *)
(***************************************************************************)
InitClients ==
  /\ halted = "no"
  /\ pc = [p \in Procs |-> "idle"]
  /\ op = [p \in Procs |-> NoArgs]
  /\ iter = [p \in Procs |-> NoIter]
  /\ matched = [p \in Procs |-> <<>>]
  /\ idx = [p \in Procs |-> 0]
  /\ ret = [p \in Procs |-> NoRet]
  /\ ncalls = [p \in Procs |-> 0]
  /\ seen = [p \in Procs |-> {}]
  /\ cur = [p \in Procs |-> NoResp]
  /\ http = [p \in Procs |-> NoHttp]
  /\ queue = <<>>
  /\ pub = <<>>
  /\ subsAt = <<>>
  /\ subLock = NewRWMutex
  /\ tmLock = NewRWMutex
  /\ fan = NewFan
  /\ logs = [s \in SubIds |-> <<>>]
  /\ reg = [pc |-> "idle", n |-> 0]

\* NewController: NewInvoker, NewTopicMap(config.TopicMatcher), the
\* ResponsePrinter subscribed when config.PrintResponse, the fan-out started
InitWithBuilder(configs, builders) ==
  /\ InitClients
  /\ cfg \in configs
  /\ hdrObj = [h \in HdrRefs \cup Procs |-> EmptyHeader]
  /\ lookup = 1
  /\ mapObj = <<EmptyTable>>
  /\ matchFunc = NewTopicMapMatchFunc("lower")
  /\ lastSync = EmptyTable
  /\ \E b \in builders : rf = [NewRefresher("off", "tick") EXCEPT !.bld = b]
  /\ Subscribers = IF cfg.PrintResponse THEN <<ResponsePrinter>> ELSE <<>>

InitController(configs) == InitWithBuilder(configs, {NoBuilder})

Init == InitController(ControllerConfigs)

InitPipeline == InitController(PipelineConfigs)

ControllerOutcomes ==
  { [kind |-> "response", status |-> 200], [kind |-> "unreachable", status |-> 0] }

OwnHeader(p) == IF p = "c1" THEN "h1" ELSE "h2"

ControllerMappings ==
  { ("payment" :> <<"a.fn">> @@ "Payment" :> <<"b.fn">>) }

Next ==
  \/ \E p \in Procs, topic \in {"payment"}, message \in Messages :
       Dispatch(p, topic, message, OwnHeader(p), <<>>)
  \/ \E p \in Procs : MatchRLock(p)
  \/ \E p \in Procs : MatchRUnlock(p)
  \/ \E p \in Procs : InvokeStart(p)
  \/ \E p \in Procs, outcome \in ControllerOutcomes : HttpReturn(p, outcome)
  \/ \E p \in Procs : InvokeSend(p)
  \/ \E p \in Procs : IwtSendNoMessage(p)
  \/ SubscribeCall
  \/ SubscribeAppend
  \/ FanRecv
  \/ FanRLock
  \/ FanDeliver
  \/ FanRUnlock
  \/ BeginMapBuilder
  \/ \E M \in ControllerMappings : BuildOk(M)
  \/ BuildError
  \/ Tick
  \/ SyncAssignUnlock

Spec == Init /\ [][Next]_vars

(***************************************************************************)
(* The controller with one dispatching goroutine, a map builder that may   *)
(* return any mapping, and every outcome of the HTTP call.                 *)
(***************************************************************************)
NextRebuild ==
  \/ \E topic \in ReceivedTopics, message \in Messages :
       Dispatch("c1", topic, message, OwnHeader("c1"), <<>>)
  \/ MatchRLock("c1")
  \/ MatchRUnlock("c1")
  \/ InvokeStart("c1")
  \/ \E outcome \in HttpOutcomes : HttpReturn("c1", outcome)
  \/ InvokeSend("c1")
  \/ IwtSendNoMessage("c1")
  \/ FanRecv
  \/ FanRLock
  \/ FanDeliver
  \/ FanRUnlock
  \/ BeginMapBuilder
  \/ \E M \in Mappings : BuildOk(M)
  \/ BuildError
  \/ Tick
  \/ SyncAssignUnlock

SpecRebuild == Init /\ [][NextRebuild]_vars

\* the ticker keeps firing, Build returns, and a goroutine holding or waiting
\* for the table's lock is scheduled until it releases or obtains it
FairRebuild ==
  /\ WF_vars(Tick)
  /\ WF_vars(BuildError \/ \E M \in Mappings : BuildOk(M))
  /\ WF_vars(SyncAssignUnlock)
  /\ WF_vars(MatchRUnlock("c1"))

SpecRebuildFair == Init /\ [][NextRebuild]_vars /\ FairRebuild

(***************************************************************************)
(* The pipeline from InvokeWithContext to the subscribers: one dispatching *)
(* goroutine whose caller may cancel the context, a goroutine that         *)
(* subscribes, the fan-out goroutine and the map builder.                  *)
(***************************************************************************)
NextPipeline ==
  \/ \E message \in Messages, opts \in DispatchOpts :
       Dispatch("c1", "payment", message, OwnHeader("c1"), opts)
  \/ Cancel("c1")
  \/ \E b \in BOOLEAN : SetAsyncFunctionInvocation(b)
  \/ MatchRLock("c1")
  \/ MatchRUnlock("c1")
  \/ InvokeStart("c1")
  \/ \E outcome \in ControllerOutcomes : HttpReturn("c1", outcome)
  \/ InvokeSend("c1")
  \/ IwtSendNoMessage("c1")
  \/ SubscribeCall
  \/ SubscribeAppend
  \/ FanRecv
  \/ FanRLock
  \/ FanDeliver
  \/ FanRUnlock
  \/ BeginMapBuilder
  \/ \E M \in ControllerMappings : BuildOk(M)
  \/ BuildError
  \/ Tick
  \/ SyncAssignUnlock

SpecPipeline == InitPipeline /\ [][NextPipeline]_vars

\* every goroutine that can take a step is scheduled; every HTTP call
\* completes (HttpReturn) and every subscriber's Response returns (FanDeliver)
FairPipeline ==
  /\ WF_vars(MatchRLock("c1"))
  /\ WF_vars(MatchRUnlock("c1"))
  /\ WF_vars(InvokeStart("c1"))
  /\ WF_vars(\E outcome \in ControllerOutcomes : HttpReturn("c1", outcome))
  /\ WF_vars(InvokeSend("c1"))
  /\ WF_vars(IwtSendNoMessage("c1"))
  /\ WF_vars(SubscribeAppend)
  /\ WF_vars(FanRecv)
  /\ WF_vars(FanRLock)
  /\ WF_vars(FanDeliver)
  /\ WF_vars(FanRUnlock)
  /\ WF_vars(SyncAssignUnlock)

SpecPipelineFair == InitPipeline /\ [][NextPipeline]_vars /\ FairPipeline

(***************************************************************************)
(* A TopicMap used directly: readers call Match and Topics while a writer  *)
(* calls Sync.  The map is built by NewTopicMap or as a struct literal     *)
(* (matchFunc unset).                                                      *)
(***************************************************************************)
InitTopicMap ==
  /\ InitClients
  /\ cfg = NewInvoker(<<"gw", "function">>, "", FALSE, FALSE, "", "", FALSE)
  /\ hdrObj = [h \in HdrRefs \cup Procs |-> EmptyHeader]
  /\ lookup = 1
  /\ mapObj = <<EmptyTable>>
  /\ lastSync = EmptyTable
  /\ matchFunc \in {Nil} \cup {NewTopicMapMatchFunc(m) : m \in {Nil, "lower"}}
  /\ rf = NewRefresher("direct", "direct")
  /\ Subscribers = <<>>

NextTopicMap ==
  \/ \E p \in Procs, topic \in ReceivedTopics : MatchCall(p, topic)
  \/ \E p \in Procs : MatchRLock(p)
  \/ \E p \in Procs : MatchRUnlock(p)
  \/ \E p \in Procs : TopicsCall(p)
  \/ \E p \in Procs : TopicsRLock(p)
  \/ \E p \in Procs : TopicsRUnlock(p)
  \/ \E M \in Mappings : SyncCall(M)
  \/ SyncAssignUnlock

SpecTopicMap == InitTopicMap /\ [][NextTopicMap]_vars

(***************************************************************************)
(* A TopicMap whose writer keeps the map it passed to Sync and writes to   *)
(* it afterwards.  Sync stored the pointer, so the write is a write to the *)
(* table, made without the table's lock: when a reader is inside its range *)
(* loop the Go runtime may stop the process ("concurrent map read and map  *)
(* write") or let the write through.                                       *)
(***************************************************************************)
\* what the writer makes of its map: it deletes every key, or lists b.fn alone
AliasWrites == {EmptyTable, ("payment" :> <<"b.fn">>)}

MutateSynced(M) ==
  /\ halted = "no"
  /\ rf.pc = "direct" /\ rf.nsync >= 1
  /\ mapObj[rf.updated] # M
  /\ mapObj' = [mapObj EXCEPT ![rf.updated] = M]
  /\ halted' \in (IF tmLock.r = {} THEN {"no"} ELSE {"no", "fatal"})
  /\ UNCHANGED <<lookup, matchFunc, tmLock, rfVars, clVars, ivVars, ctVars>>

NextAlias ==
  \/ \E topic \in ReceivedTopics : MatchCall("c1", topic)
  \/ MatchRLock("c1")
  \/ MatchRUnlock("c1")
  \/ TopicsCall("c1")
  \/ TopicsRLock("c1")
  \/ TopicsRUnlock("c1")
  \/ \E M \in Mappings : SyncCall(M)
  \/ SyncAssignUnlock
  \/ \E M \in AliasWrites : MutateSynced(M)

SpecAlias == InitTopicMap /\ [][NextAlias]_vars

(***************************************************************************)
(* An Invoker used directly: one goroutine calls Invoke, the fan-out       *)
(* goroutine receives from Responses for one subscriber.                   *)
(***************************************************************************)
InitInvoke ==
  /\ InitClients
  /\ cfg \in InvokerConfigs
  /\ \E h \in HeaderInputs : hdrObj = [r \in HdrRefs \cup Procs |->
                                        IF r = "h1" THEN h ELSE EmptyHeader]
  /\ lookup = 1
  /\ mapObj = <<EmptyTable>>
  /\ matchFunc = "default"
  /\ lastSync = EmptyTable
  /\ rf = NewRefresher("off", "tick")
  /\ Subscribers = <<1>>

NextInvoke ==
  \/ \E message \in Messages, headers \in {"h1", Nil}, opts \in InvokeOpts :
       InvokeCall("c1", "a.fn", message, headers, opts)
  \/ InvokeStart("c1")
  \/ \E outcome \in HttpOutcomes : HttpReturn("c1", outcome)
  \/ InvokeSend("c1")
  \/ FanRecv
  \/ FanRLock
  \/ FanDeliver
  \/ FanRUnlock

SpecInvoke == InitInvoke /\ [][NextInvoke]_vars

(***************************************************************************)
(* Properties of the result fan-out (specification Spec)                   *)
(***************************************************************************)
Count(s, x) == Cardinality({i \in DOMAIN s : s[i] = x})

Last(s) == s[Len(s)]

\* the results the fan-out goroutine has received from the channel
Taken == Len(pub) - Len(queue)

\* the results whose delivery loop has ended
Delivered == IF fan.pc = "recv" THEN Taken ELSE Taken - 1

\* C1: a result sent on the channel is delivered exactly once to each
\* subscriber registered when it was sent (once the fan-out has finished with
\* it), and no subscriber ever holds a result twice or a result never sent.
C1_LosslessNoDuplicate ==
  \A s \in SubIds :
    /\ Range(logs[s]) \subseteq DOMAIN pub
    /\ \A id \in DOMAIN pub :
         /\ Count(logs[s], id) <= 1
         /\ (id <= Delivered /\ s \in subsAt[id]) => Count(logs[s], id) = 1

\* two callers' results went through the fan-out while a subscriber registered
C1_Witness ==
  /\ Delivered >= 3
  /\ Len(Subscribers) = 2
  /\ \E i, j \in 1..Delivered :
       /\ subsAt[i] = {ResponsePrinter} /\ subsAt[j] = Range(Subscribers)
       /\ pub[i].call[1] # pub[j].call[1]

\* hidx of the entries of a subscriber's log that belong to call c, in order
RECURSIVE HidxOf(_, _)
HidxOf(log, c) ==
  IF log = <<>> THEN <<>>
  ELSE (IF pub[Head(log)].call = c THEN <<pub[Head(log)].hidx>> ELSE <<>>)
         \o HidxOf(Tail(log), c)

Consecutive(s) == \A i \in 1..(Len(s) - 1) : s[i + 1] = s[i] + 1

\* C2: for one InvokeWithTopic call whose Match returned h1..hn, the k-th
\* result of the call is the invocation of hk, and every subscriber receives
\* the results of the call in that order (the subscriber registered from the
\* start receives them from h1 on).
C2_DispatchOrder ==
  \A p \in Procs :
    op[p].name = "InvokeWithTopic" =>
      /\ \A id \in DOMAIN pub :
           (pub[id].call = CallId(p) /\ pub[id].hidx > 0) =>
             /\ pub[id].hidx <= Len(matched[p])
             /\ pub[id].Function = matched[p][pub[id].hidx]
      /\ \A s \in SubIds : Consecutive(HidxOf(logs[s], CallId(p)))
      /\ LET h == HidxOf(logs[ResponsePrinter], CallId(p))
         IN  h # <<>> => Head(h) \in {0, 1}

\* a subscriber holds the results for h1 and h2 of one call with another
\* call's result between them
C2_Witness ==
  \E s \in SubIds : \E i \in 1..(Len(logs[s]) - 2) :
    /\ pub[logs[s][i]].call = pub[logs[s][i + 2]].call
    /\ pub[logs[s][i]].call # pub[logs[s][i + 1]].call
    /\ pub[logs[s][i]].hidx = 1 /\ pub[logs[s][i + 2]].hidx = 2
    /\ pub[logs[s][i]].Function # pub[logs[s][i + 2]].Function

IsPrefix(s, t) == Len(s) <= Len(t) /\ \A i \in DOMAIN s : s[i] = t[i]

\* C3 as stated: all subscribers observe the same sequence, and no subscriber
\* receives result r+1 before every subscriber has received r.
C3_AsStated ==
  /\ \A s, t \in Range(Subscribers) :
       IsPrefix(logs[s], logs[t]) \/ IsPrefix(logs[t], logs[s])
  /\ \A s, t \in Range(Subscribers) : \A id \in DOMAIN pub :
       (id + 1) \in Range(logs[s]) => id \in Range(logs[t])

\* C3: each subscriber's log is a run of consecutive results in channel
\* order; a result reaches the subscribers in registration order; and no
\* subscriber receives r+1 before every subscriber registered when r was sent
\* has received r.
C3_SerializedFanOut ==
  /\ \A s \in SubIds : Consecutive(logs[s])
  /\ \A i, j \in DOMAIN Subscribers :
       (i < j /\ logs[Subscribers[j]] # <<>>) =>
          /\ logs[Subscribers[i]] # <<>>
          /\ Last(logs[Subscribers[i]]) >= Last(logs[Subscribers[j]])
  /\ \A s \in SubIds : \A id \in DOMAIN pub :
       (id + 1) \in Range(logs[s]) => \A t \in subsAt[id] : id \in Range(logs[t])

\* a subscriber registered after the first result holds the later results while
\* the earlier subscriber holds them all
C3_Witness ==
  /\ Len(Subscribers) = 2
  /\ Len(logs[Subscribers[1]]) >= 3
  /\ Len(logs[Subscribers[2]]) >= 2
  /\ Head(logs[Subscribers[2]]) > 1

\* C9: InvokeWithTopic with an empty payload sends exactly one result, whose
\* Error is "no message to send" and whose Status is 0, and returns: it never
\* takes the table's lock, matches no handler and makes no HTTP request.
C9_EmptyPayload ==
  \A p \in Procs :
    (op[p].name = "InvokeWithTopic" /\ op[p].msg = "") =>
      /\ pc[p] \in {"iwt_nomsg", "idle"}
      /\ p \notin tmLock.r
      /\ matched[p] = <<>>
      /\ http[p].n = 0
      /\ LET mine == {id \in DOMAIN pub : pub[id].call = CallId(p)}
         IN  IF pc[p] = "iwt_nomsg" THEN mine = {}
             ELSE /\ Cardinality(mine) = 1
                  /\ \A id \in mine : /\ pub[id].Error = ErrNoMessage
                                      /\ pub[id].Status = 0
                                      /\ pub[id].Function = ""

\* the call began after a Sync, the topic matches a key of the table, and the
\* one result has reached a subscriber
C9_Witness ==
  \E p \in Procs :
    /\ op[p].name = "InvokeWithTopic" /\ op[p].msg = "" /\ pc[p] = "idle"
    /\ op[p].n0 >= 1
    /\ \E key \in DOMAIN mapObj[lookup] :
         /\ ApplyMatch(matchFunc, op[p].topic, key)
         /\ mapObj[lookup][key] # <<>>
    /\ \E id \in Range(logs[ResponsePrinter]) : pub[id].call = CallId(p)

(***************************************************************************)
(* Properties of the routing table (specification SpecTopicMap)            *)
(***************************************************************************)
\* the concatenation of the lists of the keys of T that match topicName, the
\* keys taken in this order
ExpectedIn(mf, topicName, T, order) ==
  Concat([i \in 1..Len(order) |->
            IF ApplyMatch(mf, topicName, order[i]) THEN T[order[i]] ELSE <<>>])

MatchResults(mf, topicName, T) ==
  {ExpectedIn(mf, topicName, T, order) : order \in Perms(DOMAIN T)}

\* a returned call during which no Sync completed: it ran on table lastSync
RanAfterSync(p, name) ==
  ret[p].op = name /\ op[p].n0 = rf.nsync /\ rf.nsync >= 1

\* C4: a Match or Topics call that overlaps Sync calls returns what it would
\* return on one whole table among those that were current during the call
\* (the old one or a new one), never a result mixing entries of several.
C4_SyncAtomic ==
  \A p \in Procs :
    /\ ret[p].op = "Match" =>
         \E T \in seen[p] :
           ret[p].values \in MatchResults(matchFunc, ret[p].topic, T)
    /\ ret[p].op = "Topics" =>
         \E T \in seen[p] : ret[p].values \in Perms(DOMAIN T)

\* a Match returned after a Sync completed during the call, and the tables
\* before and after the Sync give different results for its topic
C4_Witness ==
  \E p \in Procs :
    /\ ret[p].op = "Match"
    /\ Cardinality(seen[p]) >= 2
    /\ op[p].n0 < rf.nsync
    /\ \A T, U \in seen[p] :
         T # U => MatchResults(matchFunc, ret[p].topic, T)
                    \cap MatchResults(matchFunc, ret[p].topic, U) = {}

\* C5 as stated: every mapping M has a key order, and after Sync(M) every
\* Match(T) returns the concatenation of the matching keys' lists in that
\* order.
C5_AsStated ==
  \A M \in Mappings : \E order \in Perms(DOMAIN M) :
    \A p \in Procs :
      (RanAfterSync(p, "Match") /\ lastSync = M) =>
        ret[p].values = ExpectedIn(matchFunc, ret[p].topic, M, order)

\* C5: after Sync(M), Match(T) returns the concatenation of M[k] over the keys
\* k the match function accepts for (T, k), the keys taken in an order that
\* may differ from call to call: each matching list whole and in stored order,
\* every occurrence of a handler kept, nothing from a non-matching key, and
\* the empty sequence when no key matches.
C5_MatchConcatenation ==
  \A p \in Procs :
    RanAfterSync(p, "Match") =>
      LET T == ret[p].topic
          keys == {k \in DOMAIN lastSync : ApplyMatch(matchFunc, T, k)}
      IN  /\ ret[p].values \in MatchResults(matchFunc, T, lastSync)
          /\ \A f \in Handlers :
               Count(ret[p].values, f) =
                 Cardinality({<<k, i>> \in keys \X (1..2) :
                                i <= Len(lastSync[k]) /\ lastSync[k][i] = f})
          /\ keys = {} => ret[p].values = <<>>

\* a Match under the case-insensitive matcher returned the lists of two
\* matching keys, one handler appearing twice
C5_Witness ==
  \E p \in Procs :
    /\ RanAfterSync(p, "Match")
    /\ lastSync = ("payment" :> <<"b.fn", "a.fn">> @@ "Payment" :> <<"a.fn">>)
    /\ ret[p].values = <<"a.fn", "b.fn", "a.fn">>

\* C6: with no match function configured (NewTopicMap(nil), or the matchFunc
\* field unset) Match returns the list stored under the key equal to the
\* received topic, case included, and nothing when there is no such key.
C6_DefaultMatch ==
  \A p \in Procs :
    (RanAfterSync(p, "Match") /\ matchFunc \in {Nil, NewTopicMapMatchFunc(Nil)}) =>
      ret[p].values = IF ret[p].topic \in DOMAIN lastSync
                        THEN lastSync[ret[p].topic] ELSE <<>>

\* on table {"payment": ["a.fn"]} with matchFunc unset, Match("payment")
\* returned ["a.fn"] and Match("Payment") returned nothing
C6_Witness ==
  /\ matchFunc = Nil
  /\ lastSync = ("payment" :> <<"a.fn">>)
  /\ \E p, q \in Procs :
       /\ RanAfterSync(p, "Match") /\ ret[p].topic = "payment"
       /\ ret[p].values = <<"a.fn">>
       /\ RanAfterSync(q, "Match") /\ ret[q].topic = "Payment"
       /\ ret[q].values = <<>>

\* C7: once a Sync(M) has completed the table is M, whatever it was before (so
\* a second Sync(M) leaves it M); Topics then returns each key of M once and
\* nothing else, and Match returns only handlers M lists under a matching key.
C7_SyncReplaces ==
  /\ rf.nsync >= 1 => mapObj[lookup] = lastSync
  /\ \A p \in Procs :
       /\ RanAfterSync(p, "Topics") =>
            /\ Range(ret[p].values) = DOMAIN lastSync
            /\ Len(ret[p].values) = Cardinality(DOMAIN lastSync)
       /\ RanAfterSync(p, "Match") =>
            \A f \in Range(ret[p].values) :
              \E k \in DOMAIN lastSync :
                /\ ApplyMatch(matchFunc, ret[p].topic, k)
                /\ f \in Range(lastSync[k])

\* the second Sync dropped a key of the first; Topics, called afterwards,
\* returned the keys of the second mapping
C7_Witness ==
  /\ rf.nsync = 2
  /\ Len(mapObj) = 3
  /\ DOMAIN mapObj[2] \ DOMAIN mapObj[3] # {}
  /\ DOMAIN mapObj[3] # {}
  /\ \E p \in Procs : RanAfterSync(p, "Topics")

(***************************************************************************)
(* Properties of Invoker.Invoke (specification SpecInvoke)                 *)
(***************************************************************************)
\* C8 as stated: Invoke with a nil or empty payload makes no HTTP request,
\* and returns and sends on the channel exactly one response whose Error is
\* "no message to send".
C8_AsStated ==
  \A p \in Procs :
    (op[p].name = "Invoke" /\ op[p].msg \in {Nil, ""}) =>
      /\ http[p].n = 0
      /\ pc[p] = "idle" =>
           /\ Len(ret[p].values) = 1
           /\ ret[p].values[1].Error = ErrNoMessage
           /\ Cardinality({id \in DOMAIN pub : pub[id].call = CallId(p)}) = 1
           /\ \A id \in DOMAIN pub :
                pub[id].call = CallId(p) => pub[id] = ret[p].values[1]

\* C10 as stated: the request Invoke sends carries X-Topic, with the topic as
\* its one value, when the invoker forwards topics and the call's topic is not
\* empty; otherwise Invoke sets no X-Topic (the callers here pass none).
C10_AsStated ==
  \A p \in Procs :
    (op[p].name = "Invoke" /\ http[p].n > 0) =>
      LET o == ApplyOpts(NoInvokeOptions, op[p].opts)
      IN  /\ http[p].header["X-Topic"] =
               IF cfg.sendTopic /\ o.topic # "" THEN <<o.topic>> ELSE <<>>
          /\ hdrObj[HeaderRef(p)]["X-Topic"] = http[p].header["X-Topic"]

\* the value the last option of this kind in opts gives, "" when there is none
OptValue(opts, kind) ==
  LET given == SelectSeq(opts, LAMBDA x : x.k = kind)
  IN  IF given = <<>> THEN "" ELSE given[Len(given)].v

\* per-call value, else the invoker's default, else what the caller passed
Precedence(perCall, default, passed) ==
  IF perCall # "" THEN <<perCall>> ELSE IF default # "" THEN <<default>> ELSE passed

\* C11: the request carries as Content-Type the per-call content type when it
\* is not empty, else the invoker's ContentType when it is not empty, else
\* nothing from Invoke: the header is as the caller's header object had it
\* when the call began; and likewise, independently, X-Callback-Url from the
\* per-call and the invoker's callback URL.
C11_HeaderPrecedence ==
  \A p \in Procs :
    (op[p].name = "Invoke" /\ http[p].n > 0) =>
      /\ http[p].header["Content-Type"] =
           Precedence(OptValue(op[p].opts, "contentType"), cfg.ContentType,
                      http[p].given["Content-Type"])
      /\ http[p].header["X-Callback-Url"] =
           Precedence(OptValue(op[p].opts, "asyncCallbackURL"),
                      cfg.asyncCallbackURL, http[p].given["X-Callback-Url"])

\* both defaults configured, only the content type overridden per call: the
\* request carries the per-call content type and the default callback URL
C11_Witness ==
  \E p \in Procs :
    /\ op[p].name = "Invoke" /\ http[p].n > 0
    /\ cfg.ContentType = "application/json" /\ cfg.asyncCallbackURL = "http://default-cb"
    /\ op[p].opts = <<WithInvokeContentType("text/plain")>>
    /\ http[p].header["Content-Type"] = <<"text/plain">>
    /\ http[p].header["X-Callback-Url"] = <<"http://default-cb">>

\* a returned call of Invoke, with the response it returned
Returned(p) == op[p].name = "Invoke" /\ pc[p] = "idle" /\ ret[p].op = "Invoke"

TransportFailed(p) == http[p].outcome.kind \in {"unreachable", "readerr"}

\* C12: when the HTTP call fails (c.Do returns an error) or the body cannot
\* be read, Invoke returns and publishes a response with Status 503, the
\* error of that failure, no body, no header and Function the handler it was
\* asked to invoke, after one request only.
C12_TransportFailure ==
  \A p \in Procs :
    (Returned(p) /\ TransportFailed(p)) =>
      LET r == ret[p].values[1]
      IN  /\ r.Status = 503
          /\ r.Error = IF http[p].outcome.kind = "unreachable"
                         THEN ErrUnreachable ELSE ErrReadBody
          /\ r.Body = Nil /\ r.Header = Nil
          /\ r.Function = op[p].fn
          /\ http[p].n = 1
          /\ \E id \in DOMAIN pub : pub[id] = r

\* a call returned after the response's body could not be read
C12_Witness ==
  \E p \in Procs :
    /\ Returned(p) /\ http[p].outcome.kind = "readerr"
    /\ op[p].msg = "hi"
    /\ ret[p].values[1].Status = 503

\* C13 as stated: the response's Error is set exactly when the payload was
\* nil or empty (Status 0) or the transport or the body read failed (Status
\* 503); otherwise Error is nil and Status is the status the handler returned.
C13_AsStated ==
  \A p \in Procs :
    Returned(p) =>
      LET r == ret[p].values[1]
          empty == op[p].msg \in {Nil, ""}
      IN  /\ (r.Error # Nil) <=> (empty \/ TransportFailed(p))
          /\ empty => r.Status = 0
          /\ (~empty /\ TransportFailed(p)) => r.Status = 503
          /\ (~empty /\ ~TransportFailed(p)) =>
               (r.Error = Nil /\ r.Status = http[p].outcome.status)

\* C14 as stated: the request carries X-Connector with the one value
\* "connector-sdk", unless the caller's headers hold X-Connector, in which
\* case it carries the caller's values only.
C14_AsStated ==
  \A p \in Procs :
    (op[p].name = "Invoke" /\ http[p].n > 0) =>
      LET own == hdrObj[HeaderRef(p)]["X-Connector"]
      IN  http[p].header["X-Connector"] =
            IF own # <<>> THEN own ELSE <<"connector-sdk">>

\* the responses sent on the channel by the current call of p
SentBy(p) == {id \in DOMAIN pub : pub[id].call = CallId(p)}

\* C15: a call of Invoke sends at most one response; when it has returned it
\* has sent exactly one, and the response returned has the Status, Body,
\* Header, Error, Function and Topic of the one sent.
C15_PublishThenReturn ==
  \A p \in Procs :
    op[p].name = "Invoke" =>
      /\ Cardinality(SentBy(p)) <= 1
      /\ pc[p] # "idle" => (SentBy(p) = {} /\ ret[p].values = <<>>)
      /\ pc[p] = "idle" =>
           /\ Cardinality(SentBy(p)) = 1
           /\ Len(ret[p].values) = 1
           /\ \A id \in SentBy(p) :
                LET s == pub[id]
                    r == ret[p].values[1]
                IN  /\ r.Status = s.Status /\ r.Body = s.Body /\ r.Header = s.Header
                    /\ r.Error = s.Error /\ r.Function = s.Function
                    /\ r.Topic = s.Topic
                    /\ s.Function = op[p].fn

\* a call returned the handler's reply, and the same response reached the
\* subscriber
C15_Witness ==
  \E p \in Procs :
    /\ Returned(p) /\ ret[p].values[1].Status = 200 /\ ret[p].values[1].Body # Nil
    /\ \E s \in SubIds : \E i \in DOMAIN logs[s] : logs[s][i] \in SentBy(p)

(***************************************************************************)
(* Properties of dispatch and rebuild (specification SpecRebuild)          *)
(***************************************************************************)
\* a dispatch with a payload whose Match has returned
Matched(p) ==
  op[p].name = "InvokeWithTopic" /\ op[p].msg \notin {Nil, ""} /\ idx[p] >= 1

\* C16: a dispatch with a non-empty payload sends one HTTP request per
\* element of the list Match returned, in list order: when it returns the
\* requests number the length of the list, each position of the list has one
\* response (so a handler listed k times was invoked k times), and a position
\* whose invocation failed has that one response only.
C16_OnePostPerMatch ==
  \A p \in Procs :
    Matched(p) =>
      /\ http[p].n = (IF pc[p] = "inv_start" THEN idx[p] - 1
                      ELSE IF pc[p] = "idle" THEN Len(matched[p]) ELSE idx[p])
      /\ http[p].n > 0 => http[p].fn = matched[p][http[p].n]
      /\ \A h \in DOMAIN matched[p] :
           LET got == {id \in SentBy(p) : pub[id].hidx = h}
           IN  /\ Cardinality(got) <= 1
               /\ (pc[p] = "idle" \/ h < idx[p]) => Cardinality(got) = 1
               /\ \A id \in got : pub[id].Function = matched[p][h]
      /\ pc[p] = "idle" =>
           \A f \in Handlers :
             Cardinality({id \in SentBy(p) : pub[id].Function = f})
               = Count(matched[p], f)

\* a dispatch returned after three requests, two of them to the same handler,
\* one of which failed
C16_Witness ==
  \E p \in Procs :
    /\ Matched(p) /\ pc[p] = "idle"
    /\ http[p].n = 3
    /\ Count(matched[p], "a.fn") = 2
    /\ \E id \in SentBy(p) : pub[id].Function = "a.fn" /\ pub[id].Error # Nil
    /\ \E id \in SentBy(p) : pub[id].Function = "a.fn" /\ pub[id].Error = Nil

\* C17: Dispatch and Invoke return normally for every input: a call given a
\* nil payload reference does not panic.  (Violated: InvokeWithTopic evaluates
\* len(*message) before any nil test, and Invoke evaluates string(*message)
\* when request printing is enabled.)
C17_AsStated ==
  \A p \in Procs : op[p].msg = Nil => halted # "panic"

\* the callers that have reached a send on i.Responses
Senders == {p \in Procs : pc[p] \in {"inv_send", "iwt_nomsg"}}

Send(p) == InvokeSend(p) \/ IwtSendNoMessage(p)

\* C18: the result queue has a fixed capacity of at least one and never holds
\* more results than that; a caller at its send proceeds when the queue is
\* empty, wherever the fan-out goroutine stands, and cannot proceed while the
\* queue is full.
C18_BoundedQueue ==
  /\ QueueCap >= 1
  /\ Len(queue) <= QueueCap
  /\ \A p \in Senders :
       /\ (queue = <<>> /\ halted = "no") => ENABLED Send(p)
       /\ Len(queue) = QueueCap => ~ ENABLED Send(p)

\* a caller stands at its send while the queue is full and the fan-out
\* goroutine is busy with an earlier result
C18_Witness ==
  /\ Len(queue) = QueueCap
  /\ fan.pc # "recv"
  /\ halted = "no"
  /\ \E p \in Senders : pc[p] = "inv_send" /\ ~ ENABLED Send(p)

\* the table in force
Table == mapObj[lookup]

\* the refresh goroutine's counters and the table agree: no Build before
\* BeginMapBuilder, one Build at once and one per tick afterwards, and the
\* table is the mapping of the latest Build whose Sync has completed
RebuildTable ==
  /\ rf.pc = "off" => rf.builds = 0 /\ rf.ticks = 0
  /\ rf.pc # "off" =>
       rf.builds = rf.ticks + (IF rf.pc = "build" /\ ~ rf.failed THEN 0 ELSE 1)
  /\ Len(rf.built) = rf.nsync + (IF rf.pc = "sync_wait" THEN 1 ELSE 0)
  /\ Table = (IF rf.nsync = 0 THEN EmptyTable ELSE rf.built[rf.nsync])
  /\ rf.pc = "tick" => rf.nsync >= 1 /\ Table = Last(rf.built)

\* C19: after BeginMapBuilder the refresh goroutine calls Build once at once
\* and once more per tick, and goes on doing so while the process lives (here
\* up to MaxSyncs rebuilds); whenever a rebuild has completed the table is the
\* mapping its Build returned, and before the first it is empty.
C19_RebuildPerTick ==
  /\ [] RebuildTable
  /\ (rf.pc # "off") ~> (halted # "no" \/ rf.nsync = MaxSyncs)

\* two rebuilds have completed, the second after a tick, with different
\* mappings; the table is the second one
C19_Witness ==
  /\ rf.nsync = 2 /\ rf.ticks = 1 /\ rf.builds = 2 /\ rf.pc = "tick"
  /\ rf.built[1] # rf.built[2]
  /\ rf.built[1] # EmptyTable
  /\ Table = rf.built[2]
  /\ halted = "no"

\* a Build error: Sync was not called (no writer waits for the table's lock,
\* no mapping was recorded) and the table is that of the last completed
\* rebuild; the process has exited
BuildFailed ==
  rf.failed =>
    /\ halted = "fatal"
    /\ rf.pc = "build"
    /\ tmLock.pend = {} /\ tmLock.w = Nil
    /\ Len(rf.built) = rf.nsync
    /\ Table = (IF rf.nsync = 0 THEN EmptyTable ELSE Last(rf.built))
    /\ rf.nsync >= 1 => Table = lastSync

\* C20: when Build returns an error the refresh goroutine does not call Sync,
\* so the table keeps the mapping of the last successful rebuild, and the
\* process exits: no step of any goroutine (rebuild, dispatch, fan-out,
\* subscription) follows the failure.
C20_BuildErrorFatal ==
  /\ [] BuildFailed
  /\ [][~ rf.failed]_vars

\* Build failed after an earlier rebuild had filled the table, while a
\* dispatch was waiting for a handler's reply and a result was in the queue
C20_Witness ==
  /\ rf.failed /\ halted = "fatal"
  /\ rf.nsync >= 1 /\ Table # EmptyTable
  /\ \E p \in Procs : pc[p] = "http"
  /\ queue # <<>>

(***************************************************************************)
(* Properties of the pipeline (specification SpecPipelineFair)             *)
(***************************************************************************)
\* the entries of a mapping
RECURSIVE Entries(_, _)
Entries(M, K) ==
  IF K = {} THEN 0
  ELSE LET k == CHOOSE x \in K : TRUE IN Len(M[k]) + Entries(M, K \ {k})

\* the results the callers of the pipeline can publish: one per entry of the
\* mapping for each call, or the one "no message" result
MaxResults ==
  LET sizes == {Entries(M, DOMAIN M) : M \in ControllerMappings}
  IN  MaxCalls * Cardinality(Procs) * (CHOOSE n \in sizes : \A m \in sizes : n >= m)

\* result n has been handed to every subscriber registered when it was sent
DeliveredToAll(n) ==
  /\ n <= Len(pub)
  /\ \A s \in subsAt[n] : n \in Range(logs[s])

\* what holds of a dispatch whose context is cancelled, in every state: a
\* request begun after the cancellation ends as a 503 result with its error;
\* each position handled so far has its one published result; a result the
\* fan-out has finished with is in the log of every subscriber it was sent for
CancelledStillPublished ==
  \A p \in Procs :
    (op[p].name = "InvokeWithTopic" /\ op[p].ctx = "cancelled") =>
      /\ (pc[p] = "inv_send" /\ http[p].done) =>
           /\ cur[p].Status = StatusServiceUnavailable
           /\ cur[p].Error = ErrUnreachable
      /\ \A h \in DOMAIN matched[p] :
           (pc[p] = "idle" \/ h < idx[p]) =>
             Cardinality({id \in SentBy(p) : pub[id].hidx = h}) = 1
      /\ (op[p].msg = "" /\ pc[p] = "idle") => Cardinality(SentBy(p)) = 1
      /\ \A id \in SentBy(p) : id <= Delivered => DeliveredToAll(id)

\* C21: cancelling the context of a dispatch affects the HTTP call only: a
\* result that has been produced, the 503 result of a cancelled call included,
\* is sent on the channel (the send is not abandoned), and every result sent
\* is delivered to every subscriber, whether or not the context is cancelled.
C21_CancelKeepsDelivery ==
  /\ [] CancelledStillPublished
  /\ \A p \in Procs :
       (pc[p] \in {"inv_send", "iwt_nomsg"} /\ op[p].ctx = "cancelled")
         ~> (halted # "no" \/ pc[p] \notin {"inv_send", "iwt_nomsg"})
  /\ \A n \in 1..MaxResults :
       (n <= Len(pub)) ~> (halted # "no" \/ DeliveredToAll(n))

\* the context was cancelled before the first request: both requests ended as
\* 503 results, and both results reached both subscribers
C21_Witness ==
  /\ op["c1"].ctx = "cancelled" /\ pc["c1"] = "idle" /\ http["c1"].done
  /\ Len(pub) = 2 /\ Delivered = 2
  /\ \A id \in 1..2 :
       /\ pub[id].Status = StatusServiceUnavailable
       /\ subsAt[id] = {ResponsePrinter, 1}
       /\ DeliveredToAll(id)

(***************************************************************************)
(* Properties of Subscribe (specification Spec)                            *)
(***************************************************************************)
\* the subscribers in the order their Subscribe calls returned: the printer
\* NewController subscribed, then the registrar's
SubscribedSoFar ==
  LET k == IF reg.pc = "wait" THEN reg.n - 1 ELSE reg.n
  IN  <<ResponsePrinter>> \o [i \in 1..k |-> i]

\* the list is what was appended, in that order; while a result is being
\* delivered the list is the one the delivery ranges over and a Subscribe that
\* was called meanwhile has not taken effect; the delivery ranges over every
\* subscriber registered when the result was received and, when its loop has
\* ended, each of them holds the result
SubscribeExcludesDelivery ==
  /\ Subscribers = SubscribedSoFar
  /\ fan.pc = "deliver" =>
       /\ fan.subs = Subscribers
       /\ subLock.r = {FanOut} /\ subLock.w = Nil
       /\ reg.pc = "wait" => reg.n \notin Range(Subscribers)
       /\ fan.reg \subseteq Range(fan.subs)
       /\ \A j \in 1..Len(fan.subs) :
            j < fan.i => Count(logs[fan.subs[j]], fan.res.id) = 1
  /\ fan.pc # "deliver" => subLock.r = {}

\* C22: the subscriber list only grows at its end; a Subscribe called while a
\* result is being delivered appends only after that delivery has ended; and a
\* subscriber registered when the fan-out receives a result is delivered it.
C22_SubscribeAppendOnly ==
  /\ [] SubscribeExcludesDelivery
  /\ [][IsPrefix(Subscribers, Subscribers')]_vars

\* Subscribe was called while the first result was being delivered and waits;
\* the delivery still ranges over the printer alone
C22_Witness ==
  /\ fan.pc = "deliver" /\ fan.i = 1 /\ fan.res.id = 1
  /\ reg.pc = "wait" /\ subLock.pend = {Registrar}
  /\ fan.subs = <<ResponsePrinter>>
  /\ Len(queue) = QueueCap

C24_AsStated ==
  \A p \in Procs :
    Matched(p) =>
      \A id \in SentBy(p) :
        /\ pub[id].Function = matched[p][pub[id].hidx]
        /\ pub[id].Topic = op[p].topic

(***************************************************************************)
(* Properties of the table's ownership (specification SpecAlias)           *)
(***************************************************************************)
\* C25: the table's mapping changes through Sync only: once Sync(M) has
\* returned the table is M as it was passed, whatever the caller does with M
\* afterwards, and Match returns handlers of that mapping only.  (Violated:
\* Sync stores the caller's pointer, so a write to M is a write to the table.)
C25_AsStated ==
  /\ (rf.nsync >= 1 /\ rf.pc = "direct") => Table = lastSync
  /\ \A p \in Procs :
       RanAfterSync(p, "Match") =>
         \A f \in Range(ret[p].values) :
           \E k \in DOMAIN lastSync : f \in Range(lastSync[k])

\* the mode the controller was constructed in: the step below never changes
\* the invoker's GatewayURL, which NewController set from gatewayRoute
ConstructedAsync == Last(cfg.GatewayURL) = "async-function"

MaxLen == 3

\* strings.Index(s, sep): the first position where sep occurs in s, 0 if none
Index(s, sep) ==
  LET at == {i \in 1..(Len(s) - Len(sep) + 1) : SubSeq(s, i, i + Len(sep) - 1) = sep}
  IN  IF at = {} THEN 0 ELSE CHOOSE i \in at : \A j \in at : i <= j

\* strings.Split(s, sep) for a non-empty sep
RECURSIVE Split(_, _)
Split(s, sep) ==
  LET i == Index(s, sep)
  IN  IF i = 0 THEN <<s>>
      ELSE <<SubSeq(s, 1, i - 1)>> \o Split(SubSeq(s, i + Len(sep), Len(s)), sep)

\* strings.TrimSpace(key)
RECURSIVE TrimSpace(_)
TrimSpace(s) ==
  IF s = <<>> THEN s
  ELSE IF Head(s) = " " THEN TrimSpace(Tail(s))
  ELSE IF s[Len(s)] = " " THEN TrimSpace(SubSeq(s, 1, Len(s) - 1))
  ELSE s

\* an appendServiceMap that keeps the key as it was cut
KeyAsCut(key) == key

\* key = strings.TrimSpace(key)
ServiceKey(key) == TrimSpace(key)

\* a reference that always has the dot and the namespace
functionPathDotted(function, namespace) == <<function, ".", namespace>>

\* fmt.Sprintf("%s%s%s", function, sep, namespace), sep "." unless the
\* namespace is empty
functionPath(function, namespace) ==
  IF namespace # "" THEN <<function, ".", namespace>> ELSE <<function>>

appendServiceMap(key0, function, namespace, serviceMap) ==
  LET key == ServiceKey(key0)
  IN  IF Len(key) > 0
        THEN IF key \in DOMAIN serviceMap
               THEN [serviceMap EXCEPT ![key] = Append(@, functionPath(function, namespace))]
               ELSE serviceMap @@ (key :> <<functionPath(function, namespace)>>)
        ELSE serviceMap

\* the loop over strings.Split(topicNames, topicDelimiter)
RECURSIVE appendTopics(_, _, _, _)
appendTopics(topics, function, namespace, serviceMap) ==
  IF topics = <<>> THEN serviceMap
  ELSE appendTopics(Tail(topics), function, namespace,
                    appendServiceMap(Head(topics), function, namespace, serviceMap))

\* the body of buildServiceMap's loop for one function
addFunction(function, topicDelimiter, namespace, serviceMap) ==
  IF function.Annotations /\ function.hasTopic
    THEN IF Len(topicDelimiter) > 0 /\ Index(function.topic, topicDelimiter) # 0
           THEN appendTopics(Split(function.topic, topicDelimiter),
                             function.Name, namespace, serviceMap)
           ELSE appendServiceMap(function.topic, function.Name, namespace, serviceMap)
    ELSE serviceMap

RECURSIVE buildServiceMap(_, _, _, _)
buildServiceMap(functions, topicDelimiter, namespace, serviceMap) ==
  IF functions = <<>> THEN serviceMap
  ELSE buildServiceMap(Tail(functions), topicDelimiter, namespace,
                       addFunction(Head(functions), topicDelimiter, namespace, serviceMap))

\* a Build that leaves an empty enumeration empty
NamespacesAsEnumerated(namespaces) == namespaces

\* if len(namespaces) == 0 { namespaces = []string{""} }
DefaultNamespace(namespaces) == IF Len(namespaces) = 0 THEN <<"">> ELSE namespaces

\* GetNamespaces when no namespace is configured, else the configured one;
\* a failed GetNamespaces returns the error
BuildNamespaces ==
  /\ halted = "no"
  /\ rf.pc = "build" /\ rf.bld.pc = "namespaces"
  /\ LET b == rf.bld
     IN  IF b.Namespace = "" /\ b.gateway.failing = "namespaces"
           THEN rf' = [rf EXCEPT !.bld.pc = "failed"]
           ELSE LET namespaces == IF b.Namespace = "" THEN b.gateway.namespaces
                                                       ELSE <<b.Namespace>>
                IN  rf' = [rf EXCEPT !.bld.pc = "functions", !.bld.i = 1,
                                     !.bld.namespaces = DefaultNamespace(namespaces),
                                     !.bld.serviceMap = EmptyTable]
  /\ UNCHANGED <<halted, tmVars, lastSync, clVars, ivVars, ctVars>>

\* one turn of the loop over namespaces: GetFunctions, then buildServiceMap
BuildFunctions ==
  /\ halted = "no"
  /\ rf.pc = "build" /\ rf.bld.pc = "functions"
  /\ rf.bld.i <= Len(rf.bld.namespaces)
  /\ LET b == rf.bld
         namespace == b.namespaces[b.i]
     IN  IF b.gateway.failing = namespace
           THEN rf' = [rf EXCEPT !.bld.pc = "failed"]
           ELSE rf' = [rf EXCEPT !.bld.i = @ + 1,
                         !.bld.serviceMap =
                            buildServiceMap(b.gateway.functions[namespace],
                                            b.TopicDelimiter, namespace, @)]
  /\ UNCHANGED <<halted, tmVars, lastSync, clVars, ivVars, ctVars>>

\* return serviceMap, err with err == nil
BuildReturn ==
  /\ rf.bld.pc = "functions"
  /\ rf.bld.i > Len(rf.bld.namespaces)
  /\ BuildOk(rf.bld.serviceMap)

\* return map[string][]string{}, err
BuildReturnError ==
  /\ rf.bld.pc = "failed"
  /\ BuildError

\* what the gateway answers: its namespaces, the functions of each namespace
\* (of "" too, its default namespace) and the call that fails, if any
Chars == {"a", "b", ",", "|", " "}

RECURSIVE StringsUpTo(_)
StringsUpTo(n) ==
  IF n = 0 THEN {<<>>}
  ELSE LET shorter == StringsUpTo(n - 1)
       IN  shorter \cup {Append(s, c) : s \in shorter, c \in Chars}

FunctionStatus(name, annotations, hasTopic, topic) ==
  [Name |-> name, Annotations |-> annotations, hasTopic |-> hasTopic, topic |-> topic]

FunctionInputs ==
  {FunctionStatus("f", TRUE, TRUE, t) : t \in StringsUpTo(MaxLen)}
    \cup {FunctionStatus("f", FALSE, FALSE, <<>>), FunctionStatus("f", TRUE, FALSE, <<>>)}

Gateways ==
  { [namespaces |-> ns, failing |-> failing,
     functions |-> ("" :> <<FunctionStatus("d", TRUE, TRUE, <<"a">>)>>
                 @@ "n1" :> <<f, FunctionStatus("g", TRUE, TRUE, <<"a">>)>>
                 @@ "n2" :> <<FunctionStatus("f", TRUE, TRUE, <<"a">>)>>)] :
      ns \in {<<>>, <<"n1">>, <<"n1", "n2">>, <<"n2", "n1">>},
      failing \in {"none", "namespaces", "n2"},
      f \in FunctionInputs }

\* NewFunctionLookupBuilder(gatewayURL, topicDelimiter, client, credentials, namespace)
NewFunctionLookupBuilder(gateway, topicDelimiter, namespace) ==
  [Namespace |-> namespace, TopicDelimiter |-> topicDelimiter, gateway |-> gateway,
   pc |-> "namespaces", namespaces |-> <<>>, i |-> 0, serviceMap |-> <<>>]

Builders ==
  { NewFunctionLookupBuilder(gateway, topicDelimiter, namespace) :
      gateway \in Gateways, topicDelimiter \in {<<>>, <<",">>, <<"|">>},
      namespace \in {"", "n1"} }

InitBuild == InitWithBuilder(ControllerConfigs, Builders)

NextBuild ==
  \/ BeginMapBuilder
  \/ BuildNamespaces
  \/ BuildFunctions
  \/ BuildReturn
  \/ BuildReturnError
  \/ SyncAssignUnlock

SpecBuild == InitBuild /\ [][NextBuild]_vars

(***************************************************************************)
(* Build's result against the gateway's answers.                           *)
(***************************************************************************)
\* Build has returned a mapping; Built is that mapping
BuildReturned == rf.builds = 1 /\ ~ rf.failed

Built == Last(rf.built)

\* the keys one function is registered under, and how many times under k
TopicsOf(function) ==
  DOMAIN addFunction(function, rf.bld.TopicDelimiter, "", EmptyTable)

Registrations(function, k) ==
  LET one == addFunction(function, rf.bld.TopicDelimiter, "", EmptyTable)
  IN  IF k \in DOMAIN one THEN Len(one[k]) ELSE 0

\* a handler reference as the claim writes it: "name.namespace", or the bare
\* name
Reference(name, namespace, bare) ==
  IF bare THEN <<name>> ELSE <<name, ".", namespace>>

\* the handler references of the namespaces in nss, in that order, and within
\* a namespace in the order the gateway lists its functions
Listing(k, nss, bare) ==
  Concat([i \in DOMAIN nss |->
    LET functions == rf.bld.gateway.functions[nss[i]]
    IN  Concat([j \in DOMAIN functions |->
          [n \in 1..Registrations(functions[j], k) |->
             Reference(functions[j].Name, nss[i], bare)]])])

ListingMap(nss, bare) ==
  LET listed == UNION {Range(rf.bld.gateway.functions[ns]) : ns \in Range(nss)}
      keys == {k \in UNION {TopicsOf(function) : function \in listed} :
                 Listing(k, nss, bare) # <<>>}
  IN  [k \in keys |-> Listing(k, nss, bare)]

\* C27 as stated: the mapping Build returns lists, under each topic, the
\* references "name.namespace" of the configured namespace's functions, or of
\* every enumerated namespace's functions when none is configured, in
\* namespace enumeration order and then function enumeration order.
C27_AsStated ==
  BuildReturned =>
    Built = ListingMap(IF rf.bld.Namespace # "" THEN <<rf.bld.Namespace>>
                                                 ELSE rf.bld.gateway.namespaces,
                       FALSE)

\* C27: as above, and when no namespace is configured and the gateway
\* enumerates none, the functions the gateway lists for its default namespace
\* "" are mapped, each handler reference being the bare name.
C27_NamespaceFiltering ==
  BuildReturned =>
    Built = IF rf.bld.Namespace # ""
              THEN ListingMap(<<rf.bld.Namespace>>, FALSE)
              ELSE IF rf.bld.gateway.namespaces # <<>>
                THEN ListingMap(rf.bld.gateway.namespaces, FALSE)
                ELSE ListingMap(<<"">>, TRUE)

C27_Witness ==
  /\ BuildReturned /\ rf.nsync = 1
  /\ rf.bld.Namespace = "" /\ rf.bld.gateway.namespaces = <<"n2", "n1">>
  /\ <<"a">> \in DOMAIN Table
  /\ Table[<<"a">>] = << <<"f", ".", "n2">>, <<"f", ".", "n1">>, <<"g", ".", "n1">> >>

\* the pieces of an annotation, stated from the positions of the delimiter
\* (one character here): a piece lies between two neighbouring cuts
Cuts(topic, delimiter) ==
  IF delimiter = <<>> THEN {} ELSE {i \in DOMAIN topic : topic[i] = delimiter[1]}

Pieces(topic, delimiter) ==
  LET ends == {0, Len(topic) + 1} \cup Cuts(topic, delimiter)
  IN  {<<a, b>> \in ends \X ends : a < b /\ ~ \E c \in ends : a < c /\ c < b}

\* a piece without the spaces around it
Trimmed(topic, piece) ==
  LET inked == {i \in (piece[1] + 1)..(piece[2] - 1) : topic[i] # " "}
  IN  IF inked = {} THEN <<>>
      ELSE SubSeq(topic, CHOOSE i \in inked : \A j \in inked : i <= j,
                         CHOOSE i \in inked : \A j \in inked : i >= j)

\* the functions Build was given, each with the namespace it was listed for
Queried ==
  UNION {{<<function, ns>> : function \in Range(rf.bld.gateway.functions[ns])} :
           ns \in Range(rf.bld.namespaces)}

PieceKeys(function) ==
  IF function.Annotations /\ function.hasTopic
    THEN {Trimmed(function.topic, piece) :
            piece \in Pieces(function.topic, rf.bld.TopicDelimiter)} \ {<<>>}
    ELSE {}

\* C28: in the mapping Build returns, a function with a "topic" annotation is
\* registered once for every piece of the annotation that is not empty after
\* trimming, under the trimmed piece, where the pieces are cut at the
\* occurrences of a non-empty delimiter (the whole annotation when the
\* delimiter is empty or absent from it); no other key exists, an annotation
\* that is only the delimiter yields no key, and a comma does not split when
\* the delimiter is "|".
C28_AnnotationPieces ==
  BuildReturned =>
    /\ DOMAIN Built = UNION {PieceKeys(q[1]) : q \in Queried}
    /\ \A q \in Queried : \A k \in DOMAIN Built :
         Count(Built[k], functionPath(q[1].Name, q[2])) =
           IF q[1].Annotations /\ q[1].hasTopic
             THEN Cardinality({piece \in Pieces(q[1].topic, rf.bld.TopicDelimiter) :
                                 Trimmed(q[1].topic, piece) = k})
             ELSE 0
    /\ \A q \in Queried :
         q[1].hasTopic /\ q[1].topic = rf.bld.TopicDelimiter =>
           \A k \in DOMAIN Built : Count(Built[k], functionPath(q[1].Name, q[2])) = 0
    /\ \A q \in Queried :
         q[1].hasTopic /\ q[1].topic = <<"a", ",", "b">> /\ rf.bld.TopicDelimiter = <<"|">> =>
           /\ <<"a", ",", "b">> \in DOMAIN Built
           /\ <<"a">> \in DOMAIN Built => Count(Built[<<"a">>], functionPath(q[1].Name, q[2])) = 0

C28_Witness ==
  /\ BuildReturned
  /\ rf.bld.Namespace = "n1" /\ rf.bld.TopicDelimiter = <<",">>
  /\ rf.bld.gateway.functions["n1"][1].hasTopic
  /\ rf.bld.gateway.functions["n1"][1].topic = <<" ", "b", ",">>
  /\ Built = (<<"b">> :> << <<"f", ".", "n1">> >> @@ <<"a">> :> << <<"g", ".", "n1">> >>)

(***************************************************************************)
(* One Dispatch call's HTTP calls, one after the other.                    *)
(***************************************************************************)
\* the handlers of p's current call whose results are on the result queue or
\* were taken from it
Placed(p) == {pub[id].hidx : id \in SentBy(p)}

\* p's n-th HTTP call starts in this step
StartsCall(p) == http'[p].n = http[p].n + 1

\* C29: within one Dispatch call the HTTP call for the next handler starts
\* only when no HTTP call of that Dispatch is in flight and the results of all
\* earlier handlers have been placed on the result queue; while a call is in
\* flight it is the only one and exactly the earlier handlers' results have
\* been placed.
C29_SequentialInvocations ==
  /\ [](\A p \in Procs :
          pc[p] = "http" => http[p].inflight /\ Placed(p) = 1..(http[p].n - 1))
  /\ [][\A p \in Procs :
          StartsCall(p) => ~ http[p].inflight /\ Placed(p) = 1..http[p].n]_vars

C29_Witness ==
  /\ pc["c1"] = "http" /\ http["c1"].inflight
  /\ http["c1"].n = 2 /\ Placed("c1") = {1}
  /\ http["c1"].fn = "b.fn"

(***************************************************************************)
(* The pipeline under fair scheduling: one dispatcher whose topic matches  *)
(* three handlers, the registrar, the fan-out goroutine and the refresher. *)
(***************************************************************************)
LiveMappings ==
  { ("payment" :> <<"b.fn", "a.fn">> @@ "Payment" :> <<"a.fn">>) }

NextLive ==
  \/ \E message \in Messages : Dispatch("c1", "payment", message, OwnHeader("c1"), <<>>)
  \/ MatchRLock("c1")
  \/ MatchRUnlock("c1")
  \/ InvokeStart("c1")
  \/ \E outcome \in ControllerOutcomes : HttpReturn("c1", outcome)
  \/ InvokeSend("c1")
  \/ IwtSendNoMessage("c1")
  \/ SubscribeCall
  \/ SubscribeAppend
  \/ FanRecv
  \/ FanRLock
  \/ FanDeliver
  \/ FanRUnlock
  \/ BeginMapBuilder
  \/ \E M \in LiveMappings : BuildOk(M)
  \/ BuildError
  \/ Tick
  \/ SyncAssignUnlock

SpecLive == Init /\ [][NextLive]_vars

\* every goroutine that can take a step is scheduled; every HTTP call
\* completes (HttpReturn) and every subscriber's Response returns (FanDeliver)
FairLive ==
  /\ WF_vars(MatchRLock("c1"))
  /\ WF_vars(MatchRUnlock("c1"))
  /\ WF_vars(InvokeStart("c1"))
  /\ WF_vars(\E outcome \in ControllerOutcomes : HttpReturn("c1", outcome))
  /\ WF_vars(InvokeSend("c1"))
  /\ WF_vars(IwtSendNoMessage("c1"))
  /\ WF_vars(SubscribeAppend)
  /\ WF_vars(FanRecv)
  /\ WF_vars(FanRLock)
  /\ WF_vars(FanDeliver)
  /\ WF_vars(FanRUnlock)
  /\ WF_vars(SyncAssignUnlock)

SpecLiveFair == Init /\ [][NextLive]_vars /\ FairLive

\* the fan-out goroutine is inside a subscriber's Response
InResponse == fan.pc = "deliver" /\ fan.i <= Len(fan.subs)

\* a step during which that Response has not returned
StillInResponse == InResponse /\ fan' = fan

\* such a step takes nothing from the queue, and with the queue full it
\* publishes nothing and leaves every caller that stands at its send there
Backpressure ==
  StillInResponse =>
    /\ IsPrefix(queue, queue')
    /\ Len(queue) = QueueCap =>
         /\ queue' = queue /\ pub' = pub
         /\ \A p \in Senders : pc'[p] = pc[p] /\ ncalls'[p] = ncalls[p]

LiveResults ==
  LET sizes == {Entries(M, DOMAIN M) : M \in LiveMappings}
  IN  MaxCalls * (CHOOSE n \in sizes : \A m \in sizes : n >= m)

\* C30: with every HTTP call completing, every Response returning and fair
\* scheduling, every result placed on the queue is eventually delivered to
\* all subscribers registered when it was placed and every Dispatch call
\* eventually returns (unless the process has ended); and as long as one
\* Response has not returned nothing leaves the queue, and once the queue is
\* full no result is placed and no caller gets past its send.
C30_PipelineLiveness ==
  /\ \A n \in 1..LiveResults :
       (n <= Len(pub)) ~> (halted # "no" \/ DeliveredToAll(n))
  /\ \A p \in Procs : (pc[p] # "idle") ~> (halted # "no" \/ pc[p] = "idle")
  /\ [][Backpressure]_vars

\* the third result waits behind the second, which fills the queue, while
\* the first is inside a subscriber's Response
C30_Witness ==
  /\ halted = "no"
  /\ InResponse /\ Len(queue) = QueueCap
  /\ pc["c1"] = "inv_send" /\ idx["c1"] = 3
  /\ Len(pub) = 2 /\ fan.res.id = 1
  /\ ~ ENABLED InvokeSend("c1") /\ ~ ENABLED FanRecv

(***************************************************************************)
(* BeginMapBuilder called again: go c.synchronizeLookups(...) starts a     *)
(* second goroutine on the same TopicMap, with its own builder and ticker. *)
(***************************************************************************)
Refresher2 == "refresh2"

BeginMapBuilderAgain ==
  /\ halted = "no"
  /\ rf.pc # "off" /\ rf.more.pc = "off"
  /\ rf' = [rf EXCEPT !.more.pc = RefreshStart, !.tasks = @ + 1]
  /\ UNCHANGED <<halted, tmVars, lastSync, clVars, ivVars, ctVars>>

\* the second goroutine's fn(): Build succeeds, Sync announces the writer
MoreBuildOk(M) ==
  /\ halted = "no"
  /\ rf.more.pc = "build"
  /\ mapObj' = Append(mapObj, M)
  /\ tmLock' = LockRequest(tmLock, Refresher2)
  /\ rf' = [rf EXCEPT !.more.pc = "sync_wait", !.more.updated = Len(mapObj) + 1]
  /\ UNCHANGED <<halted, lookup, matchFunc, lastSync, clVars, ivVars, ctVars>>

\* the second goroutine's Build fails: log.Fatalln(err)
MoreBuildError ==
  /\ halted = "no"
  /\ rf.more.pc = "build"
  /\ halted' = BuildErrorExit
  /\ UNCHANGED <<tmVars, rfVars, clVars, ivVars, ctVars>>

\* the second goroutine's Sync: t.lookup = updated under the write lock
MoreSyncAssignUnlock ==
  /\ halted = "no"
  /\ rf.more.pc = "sync_wait"
  /\ CanLock(tmLock, Refresher2)
  /\ LET s == SyncAssign(lookup, mapObj, rf.more.updated)
     IN  /\ lookup' = s.lookup
         /\ mapObj' = s.heap
  /\ tmLock' = Unlock(Lock(tmLock, Refresher2))
  /\ lastSync' = mapObj[rf.more.updated]
  /\ rf' = [rf EXCEPT !.more.pc = "tick", !.more.nsync = @ + 1]
  /\ UNCHANGED <<ivVars, ctVars, halted, matchFunc, clVars>>

\* the second goroutine's <-ticker.C
MoreTick ==
  /\ halted = "no"
  /\ rf.more.pc = "tick" /\ rf.more.nsync < MaxSyncs
  /\ rf' = [rf EXCEPT !.more.pc = "build"]
  /\ UNCHANGED <<halted, tmVars, lastSync, clVars, ivVars, ctVars>>

NextLifecycle ==
  \/ BeginMapBuilder
  \/ BeginMapBuilderAgain
  \/ \E M \in Mappings : BuildOk(M)
  \/ BuildError
  \/ Tick
  \/ SyncAssignUnlock
  \/ \E M \in Mappings : MoreBuildOk(M)
  \/ MoreBuildError
  \/ MoreTick
  \/ MoreSyncAssignUnlock
  \/ SubscribeCall
  \/ SubscribeAppend

SpecLifecycle == Init /\ [][NextLifecycle]_vars

\* C31 as stated: the controller is Created until the initialization call and
\* RefreshStarted from then on, and however many times BeginMapBuilder is
\* called at most one refresh goroutine exists.
C31_AsStated ==
  /\ rf.tasks = 0 <=> rf.pc = "off"
  /\ rf.tasks <= 1
  /\ rf.more.pc = "off"

(***************************************************************************)
(* Reads after a completed Sync (specification SpecTopicMap).              *)
(***************************************************************************)
\* the map object the k-th completed Sync installed: object 1 is the table
\* NewTopicMap made, and every Sync call brings one new object
SyncObject(k) == k + 1

\* the read calls of TopicMap
Reading(p) == op[p].name \in {"Match", "Topics"}

\* C32: a Match or Topics call that began after k Sync calls had returned
\* reads, under its read lock, the map object of the k-th Sync or of a later
\* one, and what it returns is a result on one of those tables, never on an
\* earlier one.
C32_NoStaleRead ==
  \A p \in Procs :
    /\ (Reading(p) /\ pc[p] \in {"match_runlock", "topics_runlock"}) =>
         /\ iter[p].ref >= SyncObject(op[p].n0)
         /\ iter[p].ref = lookup
    /\ (Reading(p) /\ ret[p].op = "Match") =>
         \E j \in SyncObject(op[p].n0)..Len(mapObj) :
           ret[p].values \in MatchResults(matchFunc, ret[p].topic, mapObj[j])
    /\ (Reading(p) /\ ret[p].op = "Topics") =>
         \E j \in SyncObject(op[p].n0)..Len(mapObj) :
           ret[p].values \in Perms(DOMAIN mapObj[j])

\* a Match that began after the first Sync had returned and ran to its end
\* before the second: it returned the first Sync's handlers, not the empty
\* result of the initial table
C32_Witness ==
  /\ rf.nsync = 1 /\ rf.pc = "direct"
  /\ op["c1"].name = "Match" /\ op["c1"].n0 = 1 /\ ret["c1"].op = "Match"
  /\ mapObj[SyncObject(1)] = ("payment" :> <<"b.fn", "a.fn">>)
  /\ ret["c1"].topic = "payment"
  /\ ret["c1"].values = <<"b.fn", "a.fn">>

(***************************************************************************)
(* The handlers of one Dispatch (specification SpecRebuild).               *)
(***************************************************************************)
InvokingPcs == {"inv_start", "http", "inv_send"}

Dispatching(p) == op[p].name = "InvokeWithTopic"

\* p's Match returns in this step: matchedFunctions is a result of Match on
\* the table that is current at that moment
MatchedOnCurrent(p) ==
  (pc[p] = "match_runlock" /\ pc'[p] # "match_runlock") =>
    /\ iter[p].ref = lookup
    /\ matched'[p] \in MatchResults(matchFunc, op[p].topic, Table)

\* from then on the list stays as it is, whatever Sync does, and the request
\* that starts goes to the handler at the loop's position in it
MatchedKept(p) ==
  /\ (pc[p] \in InvokingPcs /\ op'[p] = op[p]) => matched'[p] = matched[p]
  /\ (pc[p] = "inv_start" /\ pc'[p] = "http") => http'[p].fn = matched[p][idx[p]]

\* every result of the call so far names the handler at its position
InvokedAsMatched(p) ==
  (Dispatching(p) /\ op[p].msg \notin {Nil, ""}) =>
    \A id \in SentBy(p) :
      /\ pub[id].hidx \in DOMAIN matched[p]
      /\ pub[id].Function = matched[p][pub[id].hidx]

\* C33: a Dispatch takes its handlers from one Match, on the table current
\* when that Match runs; a Sync that completes while the Dispatch is invoking
\* changes neither the list nor its order, and each request and each result
\* of the Dispatch is for the handler at its position in that list.
C33_SingleMatch ==
  /\ [](\A p \in Procs : InvokedAsMatched(p))
  /\ [][\A p \in Procs : Dispatching(p) => MatchedOnCurrent(p) /\ MatchedKept(p)]_vars

\* a Sync completed between the first and the second request of a Dispatch:
\* the table now matches nothing for the topic, and the second request still
\* goes to the second handler of the list matched at the start
C33_Witness ==
  /\ Dispatching("c1") /\ pc["c1"] = "http" /\ idx["c1"] = 2
  /\ matched["c1"] = <<"b.fn", "a.fn">>
  /\ Table = EmptyTable /\ rf.nsync = 2
  /\ http["c1"].fn = "a.fn"
  /\ \E id \in SentBy("c1") : pub[id].Function = "b.fn"

(***************************************************************************)
(* The caller's header object (specification SpecInvoke).                  *)
(***************************************************************************)
\* C34 as stated: once Invoke has prepared its request, the header object the
\* caller passed holds what it held when it was passed: the X-Topic,
\* X-Callback-Url, Content-Type and User-Agent of the request are not written
\* into it.
C34_AsStated ==
  \A p \in Procs :
    (http[p].n >= 1 /\ op[p].hdr # Nil) => hdrObj[op[p].hdr] = http[p].given

(***************************************************************************)
(* A subscriber whose Response calls back into the controller.  The call   *)
(* runs on the fan-out goroutine, inside the loop over the subscribers,    *)
(* with controller.lock read-locked.  "c2" is that goroutine's position in *)
(* the Dispatch it makes; "c1" is an ordinary caller.                      *)
(***************************************************************************)
\* the subscriber registered through Subscribe; ResponsePrinter only prints
Requeuer == 1

Nested == "c2"

InRequeuer ==
  /\ fan.pc = "deliver" /\ fan.i <= Len(fan.subs)
  /\ FanTarget(fan.subs, fan.i) = Requeuer

\* sub.Response(res) calls controller.Invoke("payment", &data, headers)
ResponseDispatch ==
  /\ InRequeuer
  /\ pc[Nested] = "idle"
  /\ Dispatch(Nested, "payment", "hi", OwnHeader(Nested), <<>>)

\* sub.Response(res) returns; a Dispatch it made has returned before
ResponseReturn ==
  /\ pc[Nested] = "idle"
  /\ FanDeliver

\* sub.Response(res) calls controller.Subscribe: c.lock.Lock() announces the
\* writer on the lock the fan-out goroutine holds for reading
ResponseSubscribe ==
  /\ halted = "no"
  /\ InRequeuer
  /\ pc[Nested] = "idle"
  /\ subLock' = LockRequest(subLock, FanOut)
  /\ fan' = [fan EXCEPT !.pc = "subscribe"]
  /\ UNCHANGED <<halted, tmVars, rfVars, clVars, ivVars, Subscribers, logs, reg>>

\* Subscribe past c.lock.Lock(): the append and the deferred Unlock, for the
\* goroutine g that called it
SubscribeAppendBy(g) ==
  IF g = Registrar
    THEN SubscribeAppend
    ELSE /\ halted = "no"
         /\ fan.pc = "subscribe"
         /\ CanLock(subLock, FanOut)
         /\ Subscribers' = Append(Subscribers, FanTarget(fan.subs, fan.i))
         /\ subLock' = Unlock(Lock(subLock, FanOut))
         /\ fan' = [fan EXCEPT !.pc = "deliver"]
         /\ UNCHANGED <<halted, tmVars, rfVars, clVars, ivVars, logs, reg>>

ReentrantMappings ==
  { ("payment" :> <<"a.fn">>),
    ("payment" :> <<"a.fn">> @@ "Payment" :> <<"b.fn">>) }

NextReentrant ==
  \/ Dispatch("c1", "payment", "hi", OwnHeader("c1"), <<>>)
  \/ \E p \in Procs : MatchRLock(p)
  \/ \E p \in Procs : MatchRUnlock(p)
  \/ \E p \in Procs : InvokeStart(p)
  \/ \E p \in Procs, outcome \in ControllerOutcomes : HttpReturn(p, outcome)
  \/ \E p \in Procs : InvokeSend(p)
  \/ SubscribeCall
  \/ \E g \in {Registrar, FanOut} : SubscribeAppendBy(g)
  \/ FanRecv
  \/ FanRLock
  \/ ResponseDispatch
  \/ ResponseSubscribe
  \/ ResponseReturn
  \/ FanRUnlock
  \/ BeginMapBuilder
  \/ \E M \in ReentrantMappings : BuildOk(M)
  \/ SyncAssignUnlock

SpecReentrant == Init /\ [][NextReentrant]_vars

\* C35 as stated: a Dispatch made from inside Response returns: whenever it
\* stands at the send of a result, the send can take place.
C35_AsStated ==
  (halted = "no" /\ InRequeuer /\ pc[Nested] = "inv_send") =>
    ENABLED InvokeSend(Nested)

\* C36 as stated: a Subscribe made from inside Response returns: its Lock is
\* granted and the append takes place.
C36_AsStated ==
  (halted = "no" /\ fan.pc = "subscribe") => ENABLED SubscribeAppendBy(FanOut)

(***************************************************************************)
(* A Dispatch that matches no handler (specification SpecRebuild).         *)
(***************************************************************************)
\* p's Dispatch carried a payload and found no handler: no key of the table
\* matched, and the call is past its Match
Unrouted(p) ==
  /\ Dispatching(p) /\ op[p].msg \notin {Nil, ""}
  /\ pc[p] \notin {"match_rlock", "match_runlock"}
  /\ matched[p] = <<>>

\* C37: a Dispatch with a non-empty payload whose Match returns no handler,
\* as every Dispatch on the empty table before the first rebuild does,
\* returns at once: it makes no HTTP call and publishes no result, so no
\* subscriber receives anything for it.
C37_UnroutedSilent ==
  /\ [](\A p \in Procs :
          Unrouted(p) =>
            /\ pc[p] = "idle"
            /\ http[p].n = 0 /\ ~ http[p].inflight
            /\ SentBy(p) = {}
            /\ \A s \in SubIds : \A id \in Range(logs[s]) : pub[id].call # CallId(p))
  /\ [](\A p \in Procs :
          (Dispatching(p) /\ pc[p] = "match_runlock" /\ rf.nsync = 0) =>
            iter[p].vals = <<>>)
  /\ [][\A p \in Procs :
          (Dispatching(p) /\ pc[p] = "match_runlock" /\ iter[p].vals = <<>>
             /\ pc'[p] # pc[p]) => pc'[p] = "idle" /\ pub' = pub /\ http' = http]_vars

\* a Dispatch with a payload returned before the first rebuild: nothing was
\* requested, published or delivered
C37_Witness ==
  /\ Unrouted("c1") /\ pc["c1"] = "idle" /\ ncalls["c1"] = 1
  /\ rf.nsync = 0 /\ Table = EmptyTable
  /\ op["c1"].msg = "hi"
  /\ http["c1"].n = 0 /\ pub = <<>> /\ queue = <<>>

(***************************************************************************)
(* Two callers that pass the same http.Header object.  Invoke writes the   *)
(* object (headers.Set) and Invoker.invoke reads it later (the range over  *)
(* headers); the two are separate steps here, and nothing orders them      *)
(* between goroutines.                                                     *)
(***************************************************************************)
SharedHeader == "h1"

TopicOf(p) == IF p = "c1" THEN "payment" ELSE "Payment"

\* another goroutine is between the start of Invoke and the end of invoke's
\* range over the same header object
SharesHeaderWith(p) ==
  {q \in Procs \ {p} : pc[q] \in {"inv_start", "inv_copy"}
                        /\ HeaderRef(q) = HeaderRef(p)}

\* Invoke down to the last headers.Set: the writes to the header object.  A
\* map written while another goroutine reads or writes it is a data race:
\* the runtime may stop the process ("concurrent map writes")
InvokeSetHeaders(p) ==
  /\ halted = "no"
  /\ pc[p] = "inv_start"
  /\ IF cfg.PrintRequest /\ op[p].msg = Nil
       THEN /\ halted' = "panic"
            /\ UNCHANGED <<hdrObj, http, pc>>
       ELSE LET o == ApplyOpts(NoInvokeOptions, op[p].opts)
                base == IF op[p].hdr = Nil THEN EmptyHeader ELSE hdrObj[op[p].hdr]
            IN  /\ hdrObj' = [hdrObj EXCEPT ![HeaderRef(p)] = InvokeHeaders(cfg, o, base)]
                /\ http' = [http EXCEPT ![p].given = base]
                /\ pc' = [pc EXCEPT ![p] = "inv_copy"]
                /\ halted' \in (IF SharesHeaderWith(p) = {} THEN {"no"}
                                                           ELSE {"no", "fatal"})
  /\ UNCHANGED <<tmVars, rfVars, ctVars, op, iter, matched, idx, ret, ncalls,
                 seen, cfg, queue, cur, pub, subsAt>>

\* Invoker.invoke down to c.Do: the request gets what the header object
\* holds when the range over headers runs
InvokeCopyHeaders(p) ==
  /\ halted = "no"
  /\ pc[p] = "inv_copy"
  /\ http' = [http EXCEPT ![p] =
                [n |-> @.n + 1, fn |-> FunctionName(p),
                 url |-> gwURL(cfg, FunctionName(p)),
                 given |-> @.given,
                 header |-> RequestHeader(hdrObj[HeaderRef(p)]),
                 body |-> IF op[p].msg = Nil THEN "" ELSE op[p].msg,
                 inflight |-> TRUE, outcome |-> NoOutcome,
                 done |-> op[p].ctx = "cancelled"]]
  /\ pc' = [pc EXCEPT ![p] = "http"]
  /\ UNCHANGED <<halted, tmVars, rfVars, ctVars, op, iter, matched, idx, ret,
                 ncalls, seen, cfg, queue, hdrObj, cur, pub, subsAt>>

NextShared ==
  \/ \E p \in Procs : Dispatch(p, TopicOf(p), "hi", SharedHeader, <<>>)
  \/ \E p \in Procs : MatchRLock(p)
  \/ \E p \in Procs : MatchRUnlock(p)
  \/ \E p \in Procs : InvokeSetHeaders(p)
  \/ \E p \in Procs : InvokeCopyHeaders(p)
  \/ \E p \in Procs, outcome \in ControllerOutcomes : HttpReturn(p, outcome)
  \/ \E p \in Procs : InvokeSend(p)
  \/ FanRecv
  \/ FanRLock
  \/ FanDeliver
  \/ FanRUnlock
  \/ BeginMapBuilder
  \/ \E M \in ControllerMappings : BuildOk(M)
  \/ SyncAssignUnlock

SpecShared == Init /\ [][NextShared]_vars

\* C38 as stated: whatever the interleaving, and also when the callers pass
\* the same header object, every request of a Dispatch carries that call's
\* topic in X-Topic and every completed result of it is tagged with it.
C38_AsStated ==
  \A p \in Procs :
    Dispatching(p) =>
      /\ (pc[p] = "http" /\ cfg.sendTopic) =>
           http[p].header["X-Topic"] = <<op[p].topic>>
      /\ \A id \in SentBy(p) : pub[id].Error = Nil => pub[id].Topic = op[p].topic

(***************************************************************************)
(* appendServiceMap called directly, one call after the other on the map   *)
(* the previous call returned.                                             *)
(***************************************************************************)
MaxAppends == 2

AppendKeys ==
  {<<>>, <<" ">>, <<"a">>, <<"b">>, <<" ", "a">>, <<"a", " ">>, <<"a", "b">>,
   <<" ", " ">>, <<"b", " ">>}

\* call is a history field: the arguments of the last call
NewAppender ==
  [pc |-> "append", i |-> 0, serviceMap |-> EmptyTable,
   call |-> [key |-> <<>>, function |-> "", namespace |-> "", sm |-> EmptyTable]]

AppendServiceMap(key, function, namespace) ==
  /\ halted = "no"
  /\ rf.bld.pc = "append" /\ rf.bld.i < MaxAppends
  /\ rf' = [rf EXCEPT
              !.bld.serviceMap = appendServiceMap(key, function, namespace, @),
              !.bld.i = @ + 1,
              !.bld.call = [key |-> key, function |-> function,
                            namespace |-> namespace, sm |-> rf.bld.serviceMap]]
  /\ UNCHANGED <<halted, tmVars, lastSync, clVars, ivVars, ctVars>>

InitAppend == InitWithBuilder(ControllerConfigs, {NewAppender})

NextAppend ==
  \E key \in AppendKeys, function \in {"f", "g"}, namespace \in {"", "n1"} :
    AppendServiceMap(key, function, namespace)

SpecAppend == InitAppend /\ [][NextAppend]_vars

\* C39: after appendServiceMap(key, function, namespace, sm), with k the key
\* without the whitespace around it: if k is empty the map is as it was;
\* otherwise the map has the keys of sm and k, every other key keeps its
\* entries, and k's entries are those it had followed by one reference,
\* "function.namespace" or "function" alone when the namespace is empty.
C39_AppendFrame ==
  rf.bld.i >= 1 =>
    LET c == rf.bld.call
        out == rf.bld.serviceMap
        k == Trimmed(c.key, <<0, Len(c.key) + 1>>)
        ref == IF c.namespace = "" THEN <<c.function>>
                                   ELSE <<c.function, ".", c.namespace>>
    IN  IF k = <<>>
          THEN out = c.sm
          ELSE /\ DOMAIN out = DOMAIN c.sm \cup {k}
               /\ \A j \in DOMAIN c.sm \ {k} : out[j] = c.sm[j]
               /\ out[k] = (IF k \in DOMAIN c.sm THEN c.sm[k] ELSE <<>>) \o <<ref>>

\* the second call appends a bare name behind the entry of the first, under
\* the key " a" trimmed to "a"
C39_Witness ==
  /\ rf.bld.pc = "append" /\ rf.bld.i = 2
  /\ rf.bld.call.key = <<" ", "a">> /\ rf.bld.call.namespace = ""
  /\ rf.bld.call.sm = (<<"a">> :> << <<"f", ".", "n1">> >>)
  /\ rf.bld.serviceMap = (<<"a">> :> << <<"f", ".", "n1">>, <<"g">> >>)

====
